---- MODULE Spec2Model ----
(***************************************************************************)
(* Model of the ASTRID MART arcade kiosk (src/main.py, ArcadeRetailGame):  *)
(* the barcode input buffer (process_barcode_input), the scan router       *)
(* (scan_item / scan_timer_item with the shared cooldown), the cart        *)
(* ledger (add_to_cart, remove_last_item, clear_cart), the learning        *)
(* session and the serial queue drained by the game loop.                  *)
(*                                                                         *)
(* Strings are sequences of one-character strings.  Times are integer      *)
(* milliseconds (pygame.time.get_ticks).  Python floats are modelled as    *)
(* binary floating point with a MantBits-bit significand on a fixed grid   *)
(* (one grid unit = 1/256 euro), rounded to nearest, ties to even, after   *)
(* every addition and subtraction.                                         *)
(***************************************************************************)
EXTENDS Integers, Sequences, FiniteSets, TLC

VARIABLES
    state,                  \* self.state: the active screen
    skus,                   \* self.skus: SKU -> product record
    keyboard_shortcuts,     \* self.keyboard_shortcuts: digit -> SKU
    now,                    \* pygame.time.get_ticks(), milliseconds
    wall,                   \* time.time(), as the count of readings taken
    barcode_buffer,         \* self.barcode_buffer
    barcode_input_time,     \* self.barcode_input_time
    last_key_time,          \* self.last_key_time
    last_scan_time,         \* self.last_scan_time
    cart,                   \* self.cart: dict in insertion order, as a sequence of lines
    total_price,            \* self.total_price (float, grid units)
    receipt,                \* self.receipt
    scanned_item,           \* self.scanned_item: the status message
    timer_correct,          \* self.timer_correct
    timer_score,            \* self.timer_score
    current_target,         \* self.current_target: a product record or None
    learning_current_index, \* self.learning_current_index
    learning_product_order, \* self.learning_product_order
    payment_amount,         \* self.payment_amount
    payment_step,           \* self.payment_step
    serial_queue,           \* self.serial_queue (queue.Queue)
    serial_buffer,          \* barcode_buffer, the local of read_serial_scanner
    serial_clean,           \* history: alphanumeric fragments read since the last noise or barcode
    accepts,                \* history: the times of the scans that passed the cooldown gate
    evals,                  \* history: scans the learning session evaluated since its start
    ev,                     \* history: the last operation run and its outcome
    typed,                  \* history: characters of the input stream typed so far
    buffer_start,           \* history: time the first character of the buffer was accepted
    burst,                  \* history: characters fed at scanner speed since the buffer was empty
    burst_base,             \* history: scans accepted before the burst, -1 if the cooldown was running
    trip                    \* history: adds/removes of one SKU since the cart was fresh

clockVars == <<now, wall>>
catalogVars == <<skus, keyboard_shortcuts>>
inputVars == <<barcode_buffer, barcode_input_time, last_key_time, buffer_start,
               burst, burst_base>>
cartVars == <<cart, total_price, receipt, trip>>
learnVars == <<timer_correct, timer_score, current_target,
               learning_current_index, learning_product_order>>
paymentVars == <<payment_amount, payment_step>>
serialVars == <<serial_queue, serial_buffer, serial_clean>>
(* the fields scan_item, scan_timer_item and the cart operations write *)
sessionVars == <<last_scan_time, cart, total_price, receipt, wall, trip,
                 scanned_item, timer_correct, timer_score, current_target,
                 learning_current_index, accepts, evals>>
vars == <<state, skus, keyboard_shortcuts, now, wall, barcode_buffer,
          barcode_input_time, last_key_time, last_scan_time, cart, total_price,
          receipt, scanned_item, timer_correct, timer_score, current_target,
          learning_current_index, learning_product_order, payment_amount,
          payment_step, serial_queue, serial_buffer, serial_clean, accepts, evals, ev,
          typed,
          buffer_start, burst, burst_base, trip>>

----------------------------------------------------------------------------
(* Game states, src/main.py:46-51 *)
MENU == 0
RETAIL_MODE == 1
TIMER_MODE == 2
GAME_OVER == 3
PRODUCT_MANAGER == 4
PAYMENT_MODE == 5

(* Configuration set in __init__ *)
barcode_timeout == 1000
scanner_speed_threshold == 100
scan_cooldown == 1000
ShortCodeLen == 8
LongCodeLen == 13

----------------------------------------------------------------------------
(* Bounds of the model *)
MantBits == 10      \* significand width of the modelled float
MaxTime == 2000     \* the clock stops advancing here
MaxReceipt == 4     \* adds between two clears
MaxWall == 4        \* readings of time.time()
MaxQueue == 2       \* strings waiting in the serial queue
MaxSerialBuffer == 9 \* characters kept by the serial listener

----------------------------------------------------------------------------
(* Floating point: a value is an integer number of grid units; every result *)
(* is rounded to MantBits significant bits, ties to even.                   *)
Abs(x) == IF x < 0 THEN -x ELSE x

RECURSIVE BitLen(_)
BitLen(n) == IF n = 0 THEN 0 ELSE 1 + BitLen(n \div 2)

RECURSIVE Pow2(_)
Pow2(k) == IF k <= 0 THEN 1 ELSE 2 * Pow2(k - 1)

Ulp(x) == Pow2(BitLen(Abs(x)) - MantBits)

FloatRound(x) ==
    LET a == Abs(x)
        u == Ulp(x)
        q == a \div u
        r == a % u
        up == (2 * r > u) \/ (2 * r = u /\ q % 2 = 1)
        m == IF up THEN (q + 1) * u ELSE q * u
    IN IF x < 0 THEN -m ELSE m

FloatAdd(a, b) == FloatRound(a + b)
FloatSub(a, b) == FloatRound(a - b)
FloatMul(a, n) == FloatRound(a * n)

----------------------------------------------------------------------------
(* The catalog (products.json).  Prices are the floats nearest to the       *)
(* decimal price: 1.50 = 384/256 exactly, 2.80 ~ 717/256, 2.20 ~ 563/256.   *)
None == [name |-> "None", price |-> 0, category |-> "None"]

SKU_APPLE == <<"1", "2", "3", "4", "5", "6", "7", "8">>
SKU_MILK == <<"7", "5", "0", "1", "2", "3", "4", "5", "6", "7", "8", "9", "1">>
SKU_BREAD == <<"a", "b", "c", "d", "e", "f", "g", "h">>
SKU_JUICE == <<"a", "b", "c", "-", "e", "f", "g", "h">>

DemoCatalog ==
    (SKU_APPLE :> [name |-> "Red Apples", price |-> 384, category |-> "Produce"]) @@
    (SKU_MILK :> [name |-> "Whole Milk", price |-> 717, category |-> "Dairy"]) @@
    (SKU_BREAD :> [name |-> "White Bread", price |-> 563, category |-> "Bakery"]) @@
    (SKU_JUICE :> [name |-> "Orange Juice", price |-> 614, category |-> "Beverages"])

DemoShortcuts == (<<"1">> :> SKU_APPLE) @@ (<<"2">> :> SKU_MILK)

Catalogs == {[skus |-> DemoCatalog, keyboard_shortcuts |-> DemoShortcuts]}

(* a catalog of two products, products.json cut down to them *)
SmallCatalog == [sku \in {SKU_APPLE, SKU_BREAD} |-> DemoCatalog[sku]]
SmallShortcuts == (<<"1">> :> SKU_APPLE)
SmallCatalogs == {[skus |-> SmallCatalog, keyboard_shortcuts |-> SmallShortcuts]}

(* lookup_product: shortcut indirection first, then the direct SKU lookup *)
lookup_product(barcode_or_key) ==
    IF barcode_or_key \in DOMAIN keyboard_shortcuts
    THEN IF keyboard_shortcuts[barcode_or_key] \in DOMAIN skus
         THEN skus[keyboard_shortcuts[barcode_or_key]]
         ELSE None
    ELSE IF barcode_or_key \in DOMAIN skus
         THEN skus[barcode_or_key]
         ELSE None

----------------------------------------------------------------------------
(* Cart ledger *)
RECURSIVE CartIndexFrom(_, _, _)
CartIndexFrom(c, sku, i) ==
    IF i > Len(c) THEN 0
    ELSE IF c[i].sku = sku THEN i
    ELSE CartIndexFrom(c, sku, i + 1)

(* position of the line of sku in the dict, 0 when sku is not a key *)
CartIndex(c, sku) == CartIndexFrom(c, sku, 1)

RemoveAt(c, i) == SubSeq(c, 1, i - 1) \o SubSeq(c, i + 1, Len(c))

(* sum(line total_price for the lines of the dict), added up in floats *)
RECURSIVE SumLineTotalsFrom(_, _, _)
SumLineTotalsFrom(c, i, acc) ==
    IF i > Len(c) THEN acc
    ELSE SumLineTotalsFrom(c, i + 1, FloatAdd(acc, c[i].total_price))

SumLineTotals(c) == SumLineTotalsFrom(c, 1, 0)

(* a faulty add_to_cart: every add opens a line of its own *)
AddLineAlwaysNew(c, product, sku, t) ==
    Append(c, [sku |-> sku, name |-> product.name, price |-> product.price,
               quantity |-> 1, total_price |-> product.price,
               category |-> product.category, first_added |-> t])

(* add_to_cart: the dict after the call *)
AddLine(c, product, sku, t) ==
    LET i == CartIndex(c, sku)
    IN IF i # 0
       THEN [c EXCEPT ![i].quantity = @ + 1,
                      ![i].total_price = FloatAdd(@, product.price)]
       ELSE Append(c, [sku |-> sku, name |-> product.name, price |-> product.price,
                       quantity |-> 1, total_price |-> product.price,
                       category |-> product.category, first_added |-> t])

(* remove_last_item, the loop of lines 1059-1065: the line whose first_added *)
(* is strictly greater than every one met before it, starting from 0         *)
RECURSIVE LastItemFrom(_, _, _, _)
LastItemFrom(c, i, last_time, last_idx) ==
    IF i > Len(c) THEN last_idx
    ELSE IF c[i].first_added > last_time
         THEN LastItemFrom(c, i + 1, c[i].first_added, i)
         ELSE LastItemFrom(c, i + 1, last_time, last_idx)

(* a faulty remove_last_item: the first line of the dict is taken *)
LastItemOldest(c) == IF c = <<>> THEN 0 ELSE 1

LastItemIndex(c) == LastItemFrom(c, 1, 0, 0)

(* remove_last_item: the dict after the call *)
RemoveLine(c) ==
    LET i == LastItemIndex(c)
    IN IF i = 0 THEN c
       ELSE IF c[i].quantity > 1
            THEN [c EXCEPT ![i].quantity = @ - 1,
                           ![i].total_price = FloatSub(@, c[i].price)]
            ELSE RemoveAt(c, i)

(* a faulty remove_last_item: the total is reduced only when the line goes *)
RemoveTotalOnDelete(c, total) ==
    LET i == LastItemIndex(c)
    IN IF i = 0 \/ c[i].quantity > 1 THEN total ELSE FloatSub(total, c[i].price)

(* remove_last_item: self.total_price after the call *)
RemoveTotal(c, total) ==
    LET i == LastItemIndex(c)
    IN IF i = 0 THEN total ELSE FloatSub(total, c[i].price)

(* history of a round trip: adds of one SKU, then removes, since the cart was fresh *)
TripFresh == [sku |-> <<>>, adds |-> 0, removes |-> 0, ok |-> TRUE]

TripAdd(t, sku) ==
    IF t.ok /\ t.removes = 0 /\ (t.adds = 0 \/ t.sku = sku)
    THEN [t EXCEPT !.sku = sku, !.adds = @ + 1]
    ELSE [t EXCEPT !.ok = FALSE]

TripRemove(t) ==
    IF t.ok /\ t.removes < t.adds
    THEN [t EXCEPT !.removes = @ + 1]
    ELSE [t EXCEPT !.ok = FALSE]

Event(op, code, ret, accepted) ==
    [op |-> op, code |-> code, ret |-> ret, accepted |-> accepted, gap |-> 0]

(* The session: the fields the scan router and the cart operations read and *)
(* write, as one record, so that a handler can call another one              *)
Session ==
    [last_scan_time |-> last_scan_time, cart |-> cart, total_price |-> total_price,
     receipt |-> receipt, wall |-> wall, trip |-> trip, scanned_item |-> scanned_item,
     timer_correct |-> timer_correct, timer_score |-> timer_score,
     current_target |-> current_target,
     learning_current_index |-> learning_current_index, accepts |-> accepts,
     evals |-> evals]

(* the fields take the values of the record s; the bounds of the model hold *)
Becomes(s) ==
    /\ Len(s.receipt) <= MaxReceipt
    /\ s.wall <= MaxWall
    /\ last_scan_time' = s.last_scan_time
    /\ cart' = s.cart
    /\ total_price' = s.total_price
    /\ receipt' = s.receipt
    /\ wall' = s.wall
    /\ trip' = s.trip
    /\ scanned_item' = s.scanned_item
    /\ timer_correct' = s.timer_correct
    /\ timer_score' = s.timer_score
    /\ current_target' = s.current_target
    /\ learning_current_index' = s.learning_current_index
    /\ accepts' = s.accepts
    /\ evals' = s.evals

(* add_to_cart(product, sku); the message returned is stored by the caller; *)
(* time.time() is read when the line is new                                  *)
add_to_cart(s, product, sku) ==
    LET t == IF CartIndex(s.cart, sku) = 0 THEN s.wall + 1 ELSE s.wall
    IN [s EXCEPT !.wall = t,
                 !.cart = AddLine(s.cart, product, sku, t),
                 !.total_price = FloatAdd(s.total_price, product.price),
                 !.receipt = Append(s.receipt,
                                    [item |-> product.name, price |-> product.price]),
                 !.trip = TripAdd(s.trip, sku)]

AddedMsg(product, c, sku) ==
    <<"Added", product.name, product.price, c[CartIndex(c, sku)].quantity>>

(* a faulty clear_cart: the receipt log survives the clear *)
ClearCartKeepReceipt(s) ==
    [s EXCEPT !.cart = <<>>, !.total_price = 0,
              !.trip = TripFresh, !.scanned_item = <<"Cart cleared!">>]

(* clear_cart *)
clear_cart(s) ==
    [s EXCEPT !.cart = <<>>, !.total_price = 0, !.receipt = <<>>,
              !.trip = TripFresh, !.scanned_item = <<"Cart cleared!">>]

RemovedMsg(c) ==
    LET i == LastItemIndex(c)
    IN IF c[i].quantity > 1
       THEN <<"Removed one", c[i].name, c[i].quantity - 1>>
       ELSE <<"Removed", c[i].name>>

(* a faulty remove_last_item: the last entry of the receipt log goes too *)
RemoveLastPopsReceipt(s) ==
    IF s.cart = <<>>
    THEN [s EXCEPT !.scanned_item = <<"Cart is empty!">>]
    ELSE IF LastItemIndex(s.cart) = 0 THEN s
    ELSE [s EXCEPT !.cart = RemoveLine(s.cart),
                   !.total_price = RemoveTotal(s.cart, s.total_price),
                   !.receipt = SubSeq(@, 1, Len(@) - 1),
                   !.trip = TripRemove(s.trip),
                   !.scanned_item = RemovedMsg(s.cart)]

(* remove_last_item *)
remove_last_item(s) ==
    IF s.cart = <<>>
    THEN [s EXCEPT !.scanned_item = <<"Cart is empty!">>]
    ELSE IF LastItemIndex(s.cart) = 0 THEN s
    ELSE [s EXCEPT !.cart = RemoveLine(s.cart),
                   !.total_price = RemoveTotal(s.cart, s.total_price),
                   !.trip = TripRemove(s.trip),
                   !.scanned_item = RemovedMsg(s.cart)]

(* f"{x:.2f}": the amount x, in grid units, as a number of cents, rounded *)
(* to nearest, ties to even                                               *)
Format2(x) ==
    LET q == (x * 100) \div 256
        r == (x * 100) % 256
    IN IF r > 128 \/ (r = 128 /\ q % 2 = 1) THEN q + 1 ELSE q

(* one line of the receipt: what it is, the text, the quantity and the   *)
(* amount formatted in it (0 where the line has none)                     *)
ReceiptLine(kind, text, quantity, amount) ==
    [kind |-> kind, text |-> text, quantity |-> quantity, amount |-> amount]

(* the lines of one cart item, lines 535-540 *)
ItemLines(item) ==
    IF item.quantity > 1
    THEN <<ReceiptLine("item", item.name, item.quantity, Format2(item.total_price)),
           ReceiptLine("each", "each", 0, Format2(item.price))>>
    ELSE <<ReceiptLine("item", item.name, 1, Format2(item.price))>>

RECURSIVE CartLinesFrom(_, _)
CartLinesFrom(c, i) ==
    IF i > Len(c) THEN <<>>
    ELSE ItemLines(c[i]) \o CartLinesFrom(c, i + 1)

(* sum(item['quantity'] for item in self.cart.values()) *)
RECURSIVE SumQuantitiesFrom(_, _, _)
SumQuantitiesFrom(c, i, acc) ==
    IF i > Len(c) THEN acc
    ELSE SumQuantitiesFrom(c, i + 1, acc + c[i].quantity)

ReceiptHeader ==
    <<ReceiptLine("rule", "=", 0, 0),
      ReceiptLine("title", "ARCADE RETAIL STORE", 0, 0),
      ReceiptLine("rule", "=", 0, 0),
      ReceiptLine("date", "Date:", 0, 0),
      ReceiptLine("rule", "-", 0, 0)>>

ReceiptFooter ==
    <<ReceiptLine("rule", "=", 0, 0),
      ReceiptLine("thanks", "Thank you for shopping!", 0, 0),
      ReceiptLine("rule", "=", 0, 0)>>

(* a faulty generate_receipt: the item count is the number of cart lines *)
GenerateReceiptCountsLines(s) ==
    IF s.cart = <<>> THEN <<>>
    ELSE ReceiptHeader
         \o CartLinesFrom(s.cart, 1)
         \o <<ReceiptLine("rule", "-", 0, 0),
               ReceiptLine("count", "Total Items:", Len(s.cart), 0),
               ReceiptLine("total", "TOTAL:", 0, Format2(s.total_price))>>
         \o ReceiptFooter

(* generate_receipt: the lines returned *)
generate_receipt(s) ==
    IF s.cart = <<>> THEN <<>>
    ELSE ReceiptHeader
         \o CartLinesFrom(s.cart, 1)
         \o <<ReceiptLine("rule", "-", 0, 0),
               ReceiptLine("count", "Total Items:", SumQuantitiesFrom(s.cart, 1, 0), 0),
               ReceiptLine("total", "TOTAL:", 0, Format2(s.total_price))>>
         \o ReceiptFooter

----------------------------------------------------------------------------
(* Scan router *)

(* a faulty gate: the scanner-speed threshold in place of the cooldown *)
InCooldownShort(t, last) == t - last < scanner_speed_threshold

(* a faulty gate: a scan exactly scan_cooldown after the last one is dropped *)
InCooldownInclusive(t, last) == t - last <= scan_cooldown

(* lines 964 and 992: the cooldown gate *)
InCooldown(t, last) == t - last < scan_cooldown

(* lines 966 and 996: the scan passed the gate; history: when it did *)
Accepted(s, t) ==
    [s EXCEPT !.last_scan_time = t, !.accepts = Append(@, t)]

(* a faulty scan_item: the cart line is keyed by the code as scanned *)
CartSkuRaw(barcode_or_key) == barcode_or_key

(* lines 971-974: the SKU the cart line is keyed by *)
CartSku(barcode_or_key) ==
    IF barcode_or_key \in DOMAIN keyboard_shortcuts
    THEN keyboard_shortcuts[barcode_or_key]
    ELSE barcode_or_key

(* a faulty scan_item: a scan of no product leaves last_scan_time alone *)
ScanItemStampOnSuccess(s, barcode_or_key, t) ==
    IF InCooldown(t, s.last_scan_time) THEN s
    ELSE LET s1 == Accepted(s, t)
             product == lookup_product(barcode_or_key)
             sku == CartSku(barcode_or_key)
             s2 == add_to_cart(s1, product, sku)
         IN IF product # None
            THEN [s2 EXCEPT !.scanned_item = AddedMsg(product, s2.cart, sku)]
            ELSE [s EXCEPT !.scanned_item = <<"Product not found!">>]

(* scan_item(barcode_or_key), get_ticks returning t *)
scan_item(s, barcode_or_key, t) ==
    IF InCooldown(t, s.last_scan_time) THEN s
    ELSE LET s1 == Accepted(s, t)
             product == lookup_product(barcode_or_key)
             sku == CartSku(barcode_or_key)
             s2 == add_to_cart(s1, product, sku)
         IN IF product # None
            THEN [s2 EXCEPT !.scanned_item = AddedMsg(product, s2.cart, sku)]
            ELSE [s1 EXCEPT !.scanned_item = <<"Product not found!">>]

(* a faulty generate_new_target: the last target stays when the order is used up *)
GenerateTargetKeepLast(s) ==
    IF s.learning_current_index < Len(learning_product_order)
    THEN [s EXCEPT !.current_target = learning_product_order[s.learning_current_index + 1],
                   !.learning_current_index = @ + 1]
    ELSE s

(* a faulty generate_new_target: the index moves past the end of the order *)
GenerateTargetPastEnd(s) ==
    IF s.learning_current_index < Len(learning_product_order)
    THEN [s EXCEPT !.current_target = learning_product_order[s.learning_current_index + 1],
                   !.learning_current_index = @ + 1]
    ELSE [s EXCEPT !.current_target = None, !.learning_current_index = @ + 1]

(* generate_new_target *)
generate_new_target(s) ==
    IF s.learning_current_index < Len(learning_product_order)
    THEN [s EXCEPT !.current_target = learning_product_order[s.learning_current_index + 1],
                   !.learning_current_index = @ + 1]
    ELSE [s EXCEPT !.current_target = None]

(* a faulty scan_timer_item: a wrong or unknown scan keeps the target *)
ScanTimerRetry(s, barcode_or_key, t) ==
    IF s.current_target = None THEN s
    ELSE IF InCooldown(t, s.last_scan_time) THEN s
    ELSE LET s1 == [Accepted(s, t) EXCEPT !.evals = @ + 1]
             product == lookup_product(barcode_or_key)
         IN IF product # None /\ product.name = s.current_target.name
            THEN generate_new_target(
                     [s1 EXCEPT !.timer_correct = @ + 1, !.timer_score = @ + 1,
                                !.scanned_item = <<"Correct", product.name>>])
            ELSE [s1 EXCEPT !.scanned_item = <<"Try again">>]

(* a faulty scan_timer_item: every scan of a product of the catalog counts *)
ScanTimerAnyProduct(s, barcode_or_key, t) ==
    IF s.current_target = None THEN s
    ELSE IF InCooldown(t, s.last_scan_time) THEN s
    ELSE LET s1 == [Accepted(s, t) EXCEPT !.evals = @ + 1]
             product == lookup_product(barcode_or_key)
         IN IF product # None
            THEN generate_new_target(
                     [s1 EXCEPT !.timer_correct = @ + 1, !.timer_score = @ + 1,
                                !.scanned_item = <<"Correct", product.name>>])
            ELSE generate_new_target(
                     [s1 EXCEPT !.scanned_item = <<"Product not found. Moving to next">>])

(* a faulty scan_timer_item: the cooldown gate and its time stamp come      *)
(* before the test of the target                                            *)
ScanTimerStampsFirst(s, barcode_or_key, t) ==
    IF InCooldown(t, s.last_scan_time) THEN s
    ELSE IF s.current_target = None THEN Accepted(s, t)
    ELSE LET s1 == [Accepted(s, t) EXCEPT !.evals = @ + 1]
             product == lookup_product(barcode_or_key)
         IN IF product # None
            THEN IF product.name = s.current_target.name
                 THEN generate_new_target(
                          [s1 EXCEPT !.timer_correct = @ + 1, !.timer_score = @ + 1,
                                     !.scanned_item = <<"Correct", product.name>>])
                 ELSE generate_new_target(
                          [s1 EXCEPT !.scanned_item = <<"Moving to next", product.name>>])
            ELSE generate_new_target(
                     [s1 EXCEPT !.scanned_item = <<"Product not found. Moving to next">>])

(* scan_timer_item(barcode_or_key), get_ticks returning t *)
scan_timer_item(s, barcode_or_key, t) ==
    IF s.current_target = None THEN s
    ELSE IF InCooldown(t, s.last_scan_time) THEN s
    ELSE LET s1 == [Accepted(s, t) EXCEPT !.evals = @ + 1]
             product == lookup_product(barcode_or_key)
         IN IF product # None
            THEN IF product.name = s.current_target.name
                 THEN generate_new_target(
                          [s1 EXCEPT !.timer_correct = @ + 1, !.timer_score = @ + 1,
                                     !.scanned_item = <<"Correct", product.name>>])
                 ELSE generate_new_target(
                          [s1 EXCEPT !.scanned_item = <<"Moving to next", product.name>>])
            ELSE generate_new_target(
                     [s1 EXCEPT !.scanned_item = <<"Product not found. Moving to next">>])

(* the scan of a completed code or shortcut key in the active mode *)
(* a faulty router: a barcode is scanned into the cart in every mode but   *)
(* learning mode                                                            *)
RouteAnyMode(s, mode, code, t) ==
    IF mode = TIMER_MODE THEN scan_timer_item(s, code, t)
    ELSE scan_item(s, code, t)

Route(s, mode, code, t) ==
    IF mode = RETAIL_MODE THEN scan_item(s, code, t)
    ELSE IF mode = TIMER_MODE THEN scan_timer_item(s, code, t)
    ELSE s

(* a faulty check_serial_scanner: the newest barcode is taken first *)
RECURSIVE DrainNewestFirst(_, _, _, _)
DrainNewestFirst(s, q, mode, t) ==
    IF q = <<>> THEN s
    ELSE DrainNewestFirst(Route(s, mode, q[Len(q)], t), SubSeq(q, 1, Len(q) - 1), mode, t)

(* check_serial_scanner: every queued barcode, in order *)
RECURSIVE DrainQueue(_, _, _, _)
DrainQueue(s, q, mode, t) ==
    IF q = <<>> THEN s
    ELSE DrainQueue(Route(s, mode, Head(q), t), Tail(q), mode, t)

----------------------------------------------------------------------------
(* Barcode input buffer *)
Digits == {"0", "1", "2", "3", "4", "5", "6", "7", "8", "9"}
Letters == {"a", "b", "c", "d", "e", "f", "g", "h"}

(* str.isalnum and str.isdigit on one character *)
IsAlnum(ch) == ch \in Digits \cup Letters
IsDigit(ch) == ch \in Digits

(* str.isalnum on a string *)
IsAlnumStr(text) == text # <<>> /\ \A i \in 1..Len(text) : IsAlnum(text[i])

(* process_barcode_input(key_char) called at time t with the buffer buf and   *)
(* the two timestamps t_in (barcode_input_time) and t_key (last_key_time):    *)
(* the buffer, the timestamps and the status afterwards, and the value        *)
(* returned (<<>> stands for None; a returned barcode is never empty)         *)
(* line 417: the buffer is reset when the timeout is exceeded *)
IsStale(t, t_in) == t - t_in > barcode_timeout

(* line 424: keystrokes closer than the threshold come from a scanner *)
IsScannerSpeed(t, t_key) == (t - t_key) < scanner_speed_threshold

(* a faulty line 432: every character is appended, slow ones too *)
IsAppendedAlways(buf1, is_scanner_speed) == TRUE

(* line 432: first character, or scanner-speed input: the character is appended *)
IsAppended(buf1, is_scanner_speed) == buf1 = <<>> \/ is_scanner_speed

(* a faulty line 445: the catalog is looked up from the ninth character on *)
MatchesSkuLate(buf2) == Len(buf2) > ShortCodeLen /\ buf2 \in DOMAIN skus

(* lines 445-447: the buffer matches a SKU *)
MatchesSku(buf2) == Len(buf2) >= ShortCodeLen /\ buf2 \in DOMAIN skus

(* a faulty line 454: a code is taken as complete from 14 characters on *)
IsLongCodeLate(buf2) == Len(buf2) > LongCodeLen

(* lines 445, 454: a standard 13-character barcode *)
IsLongCode(buf2) == Len(buf2) >= ShortCodeLen /\ Len(buf2) >= LongCodeLen

(* a faulty process_barcode_input: a rejected character restarts the key clock *)
ProcessBarcodeInputStamps(key_char, t, buf, t_in, t_key, msg) ==
    LET buf1 == IF IsStale(t, t_in) THEN <<>> ELSE buf
        is_scanner_speed == IsScannerSpeed(t, t_key)
        buf2 == Append(buf1, key_char)
        scanning == <<"Scanning">>
    IN IF IsAlnum(key_char)
       THEN IF IsAppended(buf1, is_scanner_speed)
            THEN IF MatchesSku(buf2)
                 THEN [buffer |-> <<>>, input_time |-> t, key_time |-> t,
                       msg |-> scanning, ret |-> buf2]
                 ELSE IF IsLongCode(buf2)
                 THEN [buffer |-> <<>>, input_time |-> t, key_time |-> t,
                       msg |-> scanning, ret |-> buf2]
                 ELSE [buffer |-> buf2, input_time |-> t, key_time |-> t,
                       msg |-> scanning, ret |-> <<>>]
            ELSE [buffer |-> <<key_char>>, input_time |-> t, key_time |-> t,
                  msg |-> msg, ret |-> <<>>]
       ELSE [buffer |-> buf1, input_time |-> t_in, key_time |-> t,
             msg |-> msg, ret |-> <<>>]

process_barcode_input(key_char, t, buf, t_in, t_key, msg) ==
    LET buf1 == IF IsStale(t, t_in) THEN <<>> ELSE buf
        is_scanner_speed == IsScannerSpeed(t, t_key)
        buf2 == Append(buf1, key_char)
        scanning == <<"Scanning">>
    IN IF IsAlnum(key_char)
       THEN IF IsAppended(buf1, is_scanner_speed)
            THEN IF MatchesSku(buf2)
                 THEN [buffer |-> <<>>, input_time |-> t, key_time |-> t,
                       msg |-> scanning, ret |-> buf2]
                 ELSE IF IsLongCode(buf2)
                 THEN [buffer |-> <<>>, input_time |-> t, key_time |-> t,
                       msg |-> scanning, ret |-> buf2]
                 ELSE [buffer |-> buf2, input_time |-> t, key_time |-> t,
                       msg |-> scanning, ret |-> <<>>]
            ELSE [buffer |-> <<key_char>>, input_time |-> t, key_time |-> t,
                  msg |-> msg, ret |-> <<>>]
       ELSE [buffer |-> buf1, input_time |-> t_in, key_time |-> t_key,
             msg |-> msg, ret |-> <<>>]

(* the call on the object's fields, get_ticks returning t *)
PBI(key_char, t) ==
    process_barcode_input(key_char, t, barcode_buffer, barcode_input_time,
                          last_key_time, scanned_item)

(* history: when the first character of the buffer left by the call was accepted *)
BufferStartAfter(key_char, t) ==
    LET r == PBI(key_char, t)
    IN IF r.buffer = <<>> THEN buffer_start
       ELSE IF Len(r.buffer) = 1 /\ IsAlnum(key_char) THEN t
       ELSE buffer_start

(* history: the characters fed since a call that found the buffer empty, as  *)
(* long as every later one came less than the threshold after the one before *)
BurstAfter(key_char, gap) ==
    IF barcode_buffer = <<>> THEN <<key_char>>
    ELSE IF burst # <<>> /\ gap < scanner_speed_threshold THEN Append(burst, key_char)
    ELSE <<>>

(* The character streams the keyboard delivers: a scanner burst or a person  *)
(* typing one of these strings; after a complete string another one starts.  *)
CODE_UNKNOWN == <<"9", "0", "9", "0", "9", "0", "9", "0", "9", "0", "9", "0", "9">>
CODE_COLLIDE == <<"1", "2", "3", "4", "5", "6", "7", "8", "9", "0", "1", "2", "3">>

CODE_DASHED == SKU_JUICE \o <<"1", "2", "3", "4", "5">>

Streams == DOMAIN skus \cup {CODE_UNKNOWN, CODE_COLLIDE, CODE_DASHED, <<"1">>}

(* the strings a person or a scanner types on the keyboard of the kiosk *)
KeyStreams == DOMAIN skus \cup {<<"1">>}

Prefixes(streams) == UNION {{SubSeq(s, 1, n) : n \in 1..Len(s)} : s \in streams}

Chars == Digits \cup Letters \cup {"-"}

CanType(streams, ch) ==
    \/ Append(typed, ch) \in Prefixes(streams)
    \/ (typed \in streams \cup {<<>>} /\ <<ch>> \in Prefixes(streams))

TypedAfter(streams, ch) ==
    IF Append(typed, ch) \in Prefixes(streams) THEN Append(typed, ch) ELSE <<ch>>

----------------------------------------------------------------------------
(* The state after __init__, the catalog loaded being one of catalogs *)
Start(catalogs) ==
    /\ state = MENU
    /\ \E c \in catalogs :
          /\ skus = c.skus
          /\ keyboard_shortcuts = c.keyboard_shortcuts
    /\ now = 0
    /\ wall = 0
    /\ barcode_buffer = <<>>
    /\ barcode_input_time = 0
    /\ last_key_time = 0
    /\ last_scan_time = 0
    /\ cart = <<>>
    /\ total_price = 0
    /\ receipt = <<>>
    /\ scanned_item = <<>>
    /\ timer_correct = 0
    /\ timer_score = 0
    /\ current_target = None
    /\ learning_current_index = 0
    /\ learning_product_order = <<>>
    /\ payment_amount = 0
    /\ payment_step = 0
    /\ serial_queue = <<>>
    /\ serial_buffer = <<>>
    /\ serial_clean = <<>>
    /\ accepts = <<>>
    /\ evals = 0
    /\ ev = Event("init", <<>>, <<>>, FALSE)
    /\ typed = <<>>
    /\ buffer_start = 0
    /\ burst = <<>>
    /\ burst_base = -1
    /\ trip = TripFresh

Init == Start(Catalogs)

----------------------------------------------------------------------------
(* The methods called directly: the input buffer and the cart ledger *)

(* onCharacter(ch, now): process_barcode_input called on one character, gap  *)
(* milliseconds after the previous call                                       *)
OnCharacter(ch, gap) ==
    /\ CanType(Streams, ch)
    /\ now + gap <= MaxTime
    /\ now' = now + gap
    /\ LET r == PBI(ch, now')
       IN /\ barcode_buffer' = r.buffer
          /\ barcode_input_time' = r.input_time
          /\ last_key_time' = r.key_time
          /\ scanned_item' = r.msg
          /\ ev' = [Event("onCharacter", <<ch>>, r.ret, FALSE) EXCEPT !.gap = gap]
    /\ buffer_start' = BufferStartAfter(ch, now')
    /\ burst' = BurstAfter(ch, gap)
    /\ typed' = TypedAfter(Streams, ch)
    /\ UNCHANGED <<state, catalogVars, wall, last_scan_time, cartVars,
                   learnVars, paymentVars, serialVars, accepts, evals, burst_base>>

(* what the cart operations leave alone *)
CartFrame ==
    UNCHANGED <<state, catalogVars, now, barcode_buffer, barcode_input_time,
                last_key_time, buffer_start, burst, burst_base,
                learning_product_order, paymentVars, serialVars, typed>>

(* the lines of the cart as the ledger shows them *)
Ledger(c) ==
    [i \in 1..Len(c) |->
        [sku |-> c[i].sku, quantity |-> c[i].quantity, total_price |-> c[i].total_price]]

(* Cart.add(product, sku) for a product of the catalog; history: the ledger *)
(* and the running total the add found                                      *)
Add(sku) ==
    /\ LET s == add_to_cart(Session, skus[sku], sku)
       IN Becomes([s EXCEPT !.scanned_item = AddedMsg(skus[sku], s.cart, sku)])
    /\ ev' = Event("add", sku, <<Ledger(cart), total_price>>, TRUE)
    /\ CartFrame

(* Cart.removeLast() *)
RemoveLast ==
    /\ Becomes(remove_last_item(Session))
    /\ ev' = Event("removeLast", <<>>, <<>>, cart # <<>>)
    /\ CartFrame

(* Cart.clear() *)
Clear ==
    /\ Becomes(clear_cart(Session))
    /\ ev' = Event("clear", <<>>, <<>>, TRUE)
    /\ CartFrame

(* Cart.generateReceipt(): the lines are returned, nothing is assigned *)
GenerateReceipt ==
    /\ ev' = Event("generateReceipt", <<>>, generate_receipt(Session), cart # <<>>)
    /\ UNCHANGED <<sessionVars>>
    /\ CartFrame

----------------------------------------------------------------------------
(* The input buffer alone: characters arrive at scanner speed (99 ms apart), *)
(* at typing speed (500 ms) or after the buffer went stale (1001 ms)         *)
InputGaps == {99, 500, 1001}

NextInput == \E ch \in Chars, gap \in InputGaps : OnCharacter(ch, gap)

SpecInput == Init /\ [][NextInput]_vars

(* The cart ledger alone *)
NextCart ==
    \/ \E sku \in DOMAIN skus : Add(sku)
    \/ RemoveLast
    \/ Clear
    \/ GenerateReceipt

SpecCart == Init /\ [][NextCart]_vars

(* The input buffer on a catalog with a key of 5 characters, one of 8 and   *)
(* one of 14                                                                 *)
CodeCatalogs ==
    {[skus |-> (<<"1", "2", "3", "4", "5">> :> DemoCatalog[SKU_BREAD]) @@
               (SKU_APPLE :> DemoCatalog[SKU_APPLE]) @@
               ((SKU_MILK \o <<"0">>) :> DemoCatalog[SKU_MILK]),
      keyboard_shortcuts |-> SmallShortcuts]}

InitCodes == Start(CodeCatalogs)

SpecCodes == InitCodes /\ [][NextInput]_vars

----------------------------------------------------------------------------
(* The game loop (run): handle_events on the pending keyboard and button    *)
(* events, then check_serial_scanner, then the draw of the active screen.   *)

FrameMs == 500

(* time passes between two strings typed; history: a burst ends with it *)
Tick(d) ==
    /\ typed \in KeyStreams \cup {<<>>}
    /\ now + d <= MaxTime
    /\ now' = now + d
    /\ burst' = <<>>
    /\ ev' = Event("tick", <<>>, <<>>, FALSE)
    /\ UNCHANGED <<state, catalogVars, wall, barcode_buffer, barcode_input_time,
                   last_key_time, buffer_start, burst_base, last_scan_time, cartVars,
                   scanned_item, learnVars, paymentVars, serialVars, accepts, evals,
                   typed>>

(* random.shuffle(list(self.skus.values())): the orders it can produce *)
Orders ==
    LET n == Cardinality(DOMAIN skus)
        perms == {f \in [1..n -> DOMAIN skus] : \A k \in DOMAIN skus : \E i \in 1..n : f[i] = k}
    IN {[i \in 1..n |-> skus[f[i]]] : f \in perms}

(* start_retail_mode *)
start_retail_mode ==
    /\ state' = RETAIL_MODE
    /\ Becomes([Session EXCEPT !.cart = <<>>, !.total_price = 0, !.scanned_item = <<>>,
                               !.receipt = <<>>, !.trip = TripFresh])
    /\ barcode_buffer' = <<>>
    /\ barcode_input_time' = 0
    /\ last_key_time' = 0
    /\ UNCHANGED <<learning_product_order, paymentVars>>

(* generate_new_target as start_timer_mode calls it, the index being 0 *)
FirstTarget(order) == IF 0 < Len(order) THEN order[1] ELSE None

(* a faulty start_timer_mode: the counters of the session before are kept *)
StartTimerKeepScore ==
    /\ state' = TIMER_MODE
    /\ \E order \in Orders :
          /\ learning_product_order' = order
          /\ Becomes([Session EXCEPT !.scanned_item = <<>>,
                                     !.current_target = FirstTarget(order),
                                     !.learning_current_index = IF order # <<>> THEN 1 ELSE 0,
                                     !.evals = 0])
    /\ barcode_buffer' = <<>>
    /\ barcode_input_time' = 0
    /\ last_key_time' = 0
    /\ UNCHANGED paymentVars

(* start_timer_mode *)
start_timer_mode ==
    /\ state' = TIMER_MODE
    /\ \E order \in Orders :
          /\ learning_product_order' = order
          /\ Becomes([Session EXCEPT !.timer_score = 0, !.timer_correct = 0,
                                     !.scanned_item = <<>>,
                                     !.current_target = FirstTarget(order),
                                     !.learning_current_index = IF order # <<>> THEN 1 ELSE 0,
                                     !.evals = 0])
    /\ barcode_buffer' = <<>>
    /\ barcode_input_time' = 0
    /\ last_key_time' = 0
    /\ UNCHANGED paymentVars

(* the state changes that touch nothing but the screen *)
GoTo(screen) ==
    /\ state' = screen
    /\ UNCHANGED <<sessionVars, barcode_buffer, barcode_input_time, last_key_time,
                   learning_product_order, paymentVars>>

(* a handler that changes the session only *)
InSession(s) ==
    /\ Becomes(s)
    /\ UNCHANGED <<state, barcode_buffer, barcode_input_time, last_key_time,
                   learning_product_order, paymentVars>>

(* a faulty start_payment: the payment starts with an empty cart as well *)
StartPaymentAnyCart ==
    /\ state' = PAYMENT_MODE
    /\ payment_amount' = total_price
    /\ payment_step' = 0
    /\ UNCHANGED <<sessionVars, barcode_buffer, barcode_input_time, last_key_time,
                   learning_product_order>>

(* a faulty start_payment: the payment step is left where it was *)
StartPaymentKeepStep ==
    IF cart = <<>>
    THEN InSession([Session EXCEPT !.scanned_item = <<"Cart is empty!">>])
    ELSE /\ state' = PAYMENT_MODE
         /\ payment_amount' = total_price
         /\ UNCHANGED <<sessionVars, barcode_buffer, barcode_input_time, last_key_time,
                        learning_product_order, payment_step>>

(* start_payment *)
start_payment ==
    IF cart = <<>>
    THEN InSession([Session EXCEPT !.scanned_item = <<"Cart is empty!">>])
    ELSE /\ state' = PAYMENT_MODE
         /\ payment_amount' = total_price
         /\ payment_step' = 0
         /\ UNCHANGED <<sessionVars, barcode_buffer, barcode_input_time, last_key_time,
                        learning_product_order>>

(* advance_payment *)
advance_payment ==
    /\ payment_step' = payment_step + 1
    /\ IF payment_step + 1 >= 4
       THEN /\ state' = RETAIL_MODE
            /\ Becomes([clear_cart(Session) EXCEPT
                            !.scanned_item = <<"Payment complete! Thank you!">>])
       ELSE UNCHANGED <<state, sessionVars>>
    /\ UNCHANGED <<payment_amount, barcode_buffer, barcode_input_time, last_key_time,
                   learning_product_order>>

(* a faulty advance_payment: the receipt is generated after the cart is cleared *)
ReceiptWrittenAfterClear ==
    IF payment_step + 1 >= 4 THEN generate_receipt(clear_cart(Session)) ELSE <<>>

(* advance_payment, lines 930-933: the lines handed to the file writer on   *)
(* the step that completes the payment, <<>> when nothing is written         *)
receipt_written ==
    IF payment_step + 1 >= 4 THEN generate_receipt(Session) ELSE <<>>

(* print_receipt *)
print_receipt ==
    InSession([Session EXCEPT !.scanned_item =
                   IF cart # <<>> THEN <<"Receipt printed to console">>
                   ELSE <<"Cart is empty - no receipt to print">>])

(* lines 706-716 and 744-750: the character goes to the buffer; the code it *)
(* completes is scanned, and so is a digit that completes nothing            *)
Submitted(key_char, ret) ==
    IF ret # <<>> THEN ret
    ELSE IF IsDigit(key_char) THEN <<key_char>>
    ELSE <<>>

(* the session after the scan of the submitted code, if there is one *)
AfterKey(key_char) ==
    LET r == PBI(key_char, now)
        code == Submitted(key_char, r.ret)
        s0 == [Session EXCEPT !.scanned_item = r.msg]
    IN IF code # <<>> THEN Route(s0, state, code, now) ELSE s0

key_to_buffer(key_char) ==
    LET r == PBI(key_char, now)
    IN /\ barcode_buffer' = r.buffer
       /\ barcode_input_time' = r.input_time
       /\ last_key_time' = r.key_time
       /\ Becomes(AfterKey(key_char))
       /\ UNCHANGED <<state, learning_product_order, paymentVars>>

(* history: a scan submitted now is not in the cooldown *)
CooldownExpired == ~InCooldown(now, last_scan_time)

(* lines 661, 696-701, 738-742: the key is turned into a character for the  *)
(* buffer, unless the mode takes it as a command                             *)
ToBuffer(ch) == IsAlnum(ch) /\ (state = TIMER_MODE \/ ch # "c")

(* the keyboard in the two scanning modes: a string is typed in one go, by  *)
(* a scanner or as one key, and the next one starts after a pause or on an  *)
(* empty buffer                                                              *)
CanPress(ch) ==
    \/ typed # <<>> /\ Append(typed, ch) \in Prefixes(KeyStreams)
    \/ /\ typed \in KeyStreams \cup {<<>>}
       /\ <<ch>> \in Prefixes(KeyStreams)
       /\ barcode_buffer = <<>> \/ last_key_time < now

(* KEYDOWN of a digit, a letter or another printable key in retail mode and *)
(* in learning mode                                                          *)
KeyDown(ch) ==
    /\ state \in {RETAIL_MODE, TIMER_MODE}
    /\ CanPress(ch)
    /\ typed' = IF typed # <<>> /\ Append(typed, ch) \in Prefixes(KeyStreams)
                THEN Append(typed, ch) ELSE <<ch>>
    /\ IF state = RETAIL_MODE /\ ch = "c" THEN InSession(clear_cart(Session))
       ELSE IF ToBuffer(ch) THEN key_to_buffer(ch)
       ELSE GoTo(state)
    /\ burst' = BurstAfter(ch, 0)
    /\ burst_base' = IF barcode_buffer = <<>>
                     THEN IF CooldownExpired THEN Len(accepts) ELSE -1
                     ELSE burst_base
    /\ buffer_start' = IF ToBuffer(ch) THEN BufferStartAfter(ch, now) ELSE buffer_start
    /\ ev' = IF ToBuffer(ch)
             THEN Event("key", Submitted(ch, PBI(ch, now).ret), PBI(ch, now).ret,
                        Len(AfterKey(ch).accepts) > Len(accepts))
             ELSE Event("command", <<>>, <<>>, FALSE)
    /\ UNCHANGED <<catalogVars, now, serialVars>>

(* history kept by the handlers that are no key of a barcode; name is the  *)
(* handler that ran                                                         *)
CommandEvent(name) ==
    /\ burst' = <<>>
    /\ ev' = Event(name, <<>>, <<>>, FALSE)
    /\ typed' = <<>>
    /\ UNCHANGED <<catalogVars, now, serialVars, burst_base, buffer_start>>

CommandFrame == CommandEvent("command")

(* the keys 1, 2, 3 and c in the menu *)
MenuKey(ch) ==
    /\ state = MENU
    /\ IF ch = "1" THEN start_retail_mode
       ELSE IF ch = "2" THEN start_timer_mode
       ELSE IF ch \in {"3", "c"} THEN GoTo(PRODUCT_MANAGER)
       ELSE GoTo(state)
    /\ CommandFrame

(* GREEN button or x key in the menu *)
StartRetail ==
    /\ state = MENU
    /\ start_retail_mode
    /\ CommandFrame

(* BLUE button or p key in the menu; history: the counters that the      *)
(* session before this one left behind                                    *)
StartTimer ==
    /\ state = MENU
    /\ start_timer_mode
    /\ burst' = <<>>
    /\ ev' = Event("startTimer", <<>>, <<timer_score, timer_correct>>, FALSE)
    /\ typed' = <<>>
    /\ UNCHANGED <<catalogVars, now, serialVars, burst_base, buffer_start>>

(* YELLOW button in the menu *)
OpenProductManager ==
    /\ state = MENU
    /\ GoTo(PRODUCT_MANAGER)
    /\ CommandFrame

(* GREEN button or x key in retail mode; history: the cart lines and the   *)
(* receipt log the payment starts with                                     *)
Checkout ==
    /\ state = RETAIL_MODE
    /\ start_payment
    /\ burst' = <<>>
    /\ ev' = Event("checkout", <<Ledger(cart), receipt>>, <<>>, cart # <<>>)
    /\ typed' = <<>>
    /\ UNCHANGED <<catalogVars, now, serialVars, burst_base, buffer_start>>

(* BLUE button or p key in retail mode *)
RemoveLastItem ==
    /\ state = RETAIL_MODE
    /\ InSession(remove_last_item(Session))
    /\ CommandEvent("removeLastItem")

(* YELLOW button in retail mode *)
ClearCart ==
    /\ state = RETAIL_MODE
    /\ InSession(clear_cart(Session))
    /\ CommandEvent("clearCart")

(* BLUE button or p key in payment mode; history: what the payment started *)
(* with is carried along                                                    *)
AdvancePayment ==
    /\ state = PAYMENT_MODE
    /\ advance_payment
    /\ burst' = <<>>
    /\ ev' = Event("advancePayment", ev.code, receipt_written, payment_step + 1 >= 4)
    /\ typed' = <<>>
    /\ UNCHANGED <<catalogVars, now, serialVars, burst_base, buffer_start>>

(* RED button, or the ESC key; in the menu it ends the loop of run *)
Red ==
    /\ state # MENU
    /\ GoTo(IF state = PAYMENT_MODE THEN RETAIL_MODE ELSE MENU)
    /\ burst' = <<>>
    /\ ev' = Event("command", <<>>, <<>>, FALSE)
    /\ typed' = <<>>
    /\ UNCHANGED <<catalogVars, now, serialVars, burst_base, buffer_start>>

(* the r key in retail mode *)
PrintReceipt ==
    /\ state = RETAIL_MODE
    /\ print_receipt
    /\ CommandEvent("printReceipt")

(* process_barcode_complete(complete_barcode): the value returned, <<>> for None *)
process_barcode_complete(complete_barcode) ==
    LET clean_barcode == SelectSeq(complete_barcode, IsAlnum)
    IN IF Len(complete_barcode) >= ShortCodeLen /\ clean_barcode \in DOMAIN skus
       THEN clean_barcode
       ELSE <<>>

(* process_barcode_complete(complete_barcode), called with self.barcode_buffer *)
(* holding complete_barcode: the buffer after the call                         *)
BufferAfterComplete(complete_barcode) ==
    IF process_barcode_complete(complete_barcode) # <<>> THEN <<>> ELSE complete_barcode

(* the RETURN key in retail and learning mode: onExplicitCompletion *)
Enter ==
    /\ state \in {RETAIL_MODE, TIMER_MODE}
    /\ barcode_buffer # <<>>
    /\ LET complete_barcode == process_barcode_complete(barcode_buffer)
           s == IF complete_barcode # <<>>
                THEN Route(Session, state, complete_barcode, now)
                ELSE [Session EXCEPT !.scanned_item = <<"Unknown barcode", barcode_buffer>>]
       IN /\ Becomes(s)
          /\ ev' = Event("enter", complete_barcode, complete_barcode,
                         Len(s.accepts) > Len(accepts))
    /\ barcode_buffer' = <<>>
    /\ burst' = <<>>
    /\ typed' = <<>>
    /\ UNCHANGED <<state, catalogVars, now, barcode_input_time, last_key_time,
                   learning_product_order, paymentVars, serialVars, burst_base,
                   buffer_start>>

(* The keyboard buffer and the RETURN key: the characters reach               *)
(* process_barcode_input as in SpecInput, in one of the two scanning modes,   *)
(* and RETURN is pressed at any point of the stream                           *)
MaxEnterTime == 1500    \* the clock of the RETURN-key runs stops here

KeyTyped(ch, gap) ==
    /\ state \in {RETAIL_MODE, TIMER_MODE}
    /\ now + gap <= MaxEnterTime
    /\ OnCharacter(ch, gap)

NextEnter ==
    \/ StartRetail
    \/ StartTimer
    \/ \E ch \in Chars, gap \in InputGaps : KeyTyped(ch, gap)
    \/ Enter

InitEnter == Start(SmallCatalogs)

SpecEnter == InitEnter /\ [][NextEnter]_vars

(* what one read of the serial port returns, stripped: a whole barcode *)
SerialChunks == {SKU_APPLE}

(* history: the fragments that make up a barcode still on its way *)
CleanAfter(text) == IF IsAlnumStr(text) THEN serial_clean \o text ELSE <<>>

(* a faulty listener: it stamps the scan itself when it queues a barcode *)
SerialReadStamps(text) ==
    /\ Len(serial_queue) < MaxQueue
    /\ Len(text) >= ShortCodeLen /\ IsAlnumStr(text)
    /\ serial_queue' = Append(serial_queue, text)
    /\ last_scan_time' = now
    /\ UNCHANGED <<state, catalogVars, now, cart, total_price, receipt, wall, trip,
                   scanned_item, timer_correct, timer_score, current_target,
                   learning_current_index, accepts, evals, barcode_buffer,
                   barcode_input_time, last_key_time, learning_product_order,
                   paymentVars, ev, typed, buffer_start, burst, burst_base,
                   serial_buffer, serial_clean>>

(* read_serial_scanner: one read of the listener thread *)
SerialRead(text) ==
    /\ Len(serial_queue) < MaxQueue
    /\ IF Len(text) >= ShortCodeLen /\ IsAlnumStr(text)
       THEN /\ serial_queue' = Append(serial_queue, text)
            /\ UNCHANGED <<serial_buffer, serial_clean>>
       ELSE IF Len(serial_buffer \o text) >= ShortCodeLen /\ IsAlnumStr(serial_buffer \o text)
       THEN /\ serial_queue' = Append(serial_queue, serial_buffer \o text)
            /\ serial_buffer' = <<>>
            /\ serial_clean' = <<>>
       ELSE /\ Len(serial_buffer \o text) <= MaxSerialBuffer
            /\ serial_buffer' = serial_buffer \o text
            /\ serial_clean' = CleanAfter(text)
            /\ UNCHANGED serial_queue
    /\ UNCHANGED <<state, catalogVars, now, sessionVars, barcode_buffer,
                   barcode_input_time, last_key_time, learning_product_order,
                   paymentVars, ev, typed, buffer_start, burst, burst_base>>

(* the end of a frame of run: check_serial_scanner, then the draw of the    *)
(* active screen (draw_timer_mode ends the session that has no target left) *)
EndFrame ==
    /\ LET s == DrainQueue(Session, serial_queue, state, now)
       IN /\ Becomes(s)
          /\ state' = IF state = TIMER_MODE /\ s.current_target = None
                      THEN GAME_OVER ELSE state
          /\ ev' = IF serial_queue # <<>> /\ state \in {RETAIL_MODE, TIMER_MODE}
                   THEN Event("serial", serial_queue, <<>>, Len(s.accepts) > Len(accepts))
                   ELSE ev
          /\ burst_base' = IF Len(s.accepts) > Len(accepts) THEN -1 ELSE burst_base
    /\ serial_queue' = <<>>
    /\ UNCHANGED <<catalogVars, now, barcode_buffer, barcode_input_time,
                   last_key_time, learning_product_order, paymentVars, serial_buffer,
                   serial_clean,
                   typed, buffer_start, burst>>

(* Scanning in the two modes: the keyboard, the serial scanner, the mode     *)
(* changes and the clock                                                      *)
Next ==
    \/ Tick(FrameMs)
    \/ \E ch \in Chars : KeyDown(ch)
    \/ StartRetail
    \/ StartTimer
    \/ Red
    \/ \E text \in SerialChunks : SerialRead(text)
    \/ EndFrame

InitGame == Start(SmallCatalogs)

Spec == InitGame /\ [][Next]_vars

----------------------------------------------------------------------------
(* The scan router and the learning session alone: submit(code, now), which *)
(* handle_events and check_serial_scanner call with a completed code or a   *)
(* shortcut key, is called directly, on catalogs of zero to three products. *)

MaxScanTime == 3000     \* the clock of the scan router stops advancing here

EmptyCatalog == [sku \in {} |-> None]
OneCatalog == [sku \in {SKU_APPLE} |-> DemoCatalog[sku]]
ThreeCatalog == [sku \in {SKU_APPLE, SKU_BREAD, SKU_MILK} |-> DemoCatalog[sku]]

(* products.json with no product, one, two and three products *)
ScanCatalogs ==
    {[skus |-> EmptyCatalog, keyboard_shortcuts |-> EmptyCatalog],
     [skus |-> OneCatalog, keyboard_shortcuts |-> SmallShortcuts],
     [skus |-> SmallCatalog, keyboard_shortcuts |-> SmallShortcuts],
     [skus |-> ThreeCatalog, keyboard_shortcuts |-> DemoShortcuts]}

(* the codes submitted: two SKUs, a shortcut key and a code of no product *)
ScanCodes == {SKU_APPLE, SKU_BREAD, <<"1">>, CODE_UNKNOWN}

(* the time between two calls: 499 + 500 ms is just inside the cooldown,   *)
(* 500 + 500 ms is exactly the cooldown                                     *)
ScanGaps == {499, 500}

(* time passes between two submits; run draws the frame before the clock    *)
(* moves on, and the draw ends a learning session that has no target left   *)
Wait(d) ==
    /\ ~(state = TIMER_MODE /\ current_target = None)
    /\ now + d <= MaxScanTime
    /\ now' = now + d
    /\ UNCHANGED <<state, catalogVars, sessionVars, inputVars, learning_product_order,
                   paymentVars, serialVars, typed, ev>>

(* history: the code of the last submit that passed the gate *)
LastAcceptedCode ==
    IF ev.op # "submit" THEN <<>>
    ELSE IF ev.accepted THEN ev.code
    ELSE ev.ret

(* submit(code, now): scan_item in retail mode, scan_timer_item in learning *)
(* mode, get_ticks returning now                                            *)
Submit(code) ==
    /\ state \in {RETAIL_MODE, TIMER_MODE}
    /\ LET s == Route(Session, state, code, now)
       IN /\ Becomes(s)
          /\ ev' = Event("submit", code, LastAcceptedCode, Len(s.accepts) > Len(accepts))
    /\ UNCHANGED <<state, catalogVars, now, inputVars, learning_product_order,
                   paymentVars, serialVars, typed>>

NextScan ==
    \/ \E d \in ScanGaps : Wait(d)
    \/ \E code \in ScanCodes : Submit(code)
    \/ StartRetail
    \/ StartTimer
    \/ Red
    \/ EndFrame

InitScan == Start(ScanCatalogs)

SpecScan == InitScan /\ [][NextScan]_vars

(* the loop of run draws a frame in every iteration *)
SpecScanFrames == SpecScan /\ WF_vars(EndFrame)

----------------------------------------------------------------------------
(* The serial scanner alone: the listener thread reads whole barcodes,      *)
(* halves of a barcode and noise, and the game loop drains the queue at the *)
(* end of every frame, in the menu and in the two scanning modes.           *)

HALF_LOW == <<"1", "2", "3", "4">>
HALF_HIGH == <<"5", "6", "7", "8">>
NOISE == <<"-">>

(* what one read of the serial port returns, stripped *)
SerialFragments == {SKU_APPLE, SKU_BREAD, HALF_LOW, HALF_HIGH, NOISE}

(* the device: a barcode comes whole or as its two halves in order, and one *)
(* burst of noise can come between two reads                                *)
CanRead(text) ==
    \/ text \in {SKU_APPLE, SKU_BREAD}
    \/ text = HALF_LOW /\ serial_clean = <<>>
    \/ text = HALF_HIGH /\ serial_clean = HALF_LOW
    \/ text = NOISE /\ \A i \in 1..Len(serial_buffer) : IsAlnum(serial_buffer[i])

NextSerial ==
    \/ \E text \in SerialFragments : CanRead(text) /\ SerialRead(text)
    \/ EndFrame
    \/ Tick(FrameMs)
    \/ StartRetail
    \/ StartTimer
    \/ Red

SpecSerial == InitGame /\ [][NextSerial]_vars

----------------------------------------------------------------------------
(* Retail mode alone: the buttons of the menu, of retail mode and of the    *)
(* payment screen, and the scans the router lets through to the cart.       *)

RetailCodes == {SKU_APPLE, SKU_BREAD, CODE_UNKNOWN}

RetailGaps == {1000}

NextRetail ==
    \/ StartRetail
    \/ \E code \in RetailCodes : Submit(code)
    \/ \E d \in RetailGaps : Wait(d)
    \/ Checkout
    \/ RemoveLastItem
    \/ ClearCart
    \/ PrintReceipt
    \/ AdvancePayment
    \/ Red

InitRetail == Start(SmallCatalogs)

SpecRetail == InitRetail /\ [][NextRetail]_vars

(* Retail mode and the payment screen with the serial scanner at work: the  *)
(* listener queues barcodes in every mode, the frame drains them            *)
NextPayment ==
    \/ NextRetail
    \/ \E text \in SerialChunks : SerialRead(text)
    \/ EndFrame

SpecPayment == InitRetail /\ [][NextPayment]_vars

----------------------------------------------------------------------------
(* The catalog: products.json as the management tool (manage_products.py)   *)
(* and the product manager screen of the game rewrite it. Both programs     *)
(* load the file when they start and save it after every change, and they   *)
(* are run one at a time, so one mapping of products and one of shortcuts   *)
(* stand for the file and for the copy in memory.                            *)

Without(f, key) == [k \in DOMAIN f \ {key} |-> f[k]]

(* the keys of the shortcuts that lead to sku *)
KeysOf(shortcuts, sku) == {key \in DOMAIN shortcuts : shortcuts[key] = sku}

(* the shortcut keys the tool accepts: one digit *)
ShortcutKeys == {<<"1">>, <<"2">>}

(* what the tool leaves alone: it is another process *)
ToolFrame ==
    UNCHANGED <<state, clockVars, inputVars, cartVars, learnVars, paymentVars,
                serialVars, last_scan_time, scanned_item, accepts, evals, typed>>

(* ProductManager.add_product: sku, the product typed, and the shortcut     *)
(* typed, <<>> when the question is skipped                                  *)
AddProduct(sku, product, shortcut) ==
    /\ IF sku \in DOMAIN skus
       THEN UNCHANGED catalogVars
       ELSE /\ skus' = (sku :> product) @@ skus
            /\ keyboard_shortcuts' =
                  IF shortcut \in ShortcutKeys
                  THEN (shortcut :> sku) @@
                       [k \in DOMAIN keyboard_shortcuts \ KeysOf(keyboard_shortcuts, sku)
                           |-> keyboard_shortcuts[k]]
                  ELSE keyboard_shortcuts
    /\ ev' = Event("addProduct", sku, shortcut, sku \notin DOMAIN skus)
    /\ ToolFrame

(* ProductManager.delete_product, the deletion confirmed: the loop over the *)
(* shortcuts deletes the first key found for sku and stops; which key is    *)
(* first is the order of the dict, which the mapping does not keep           *)
DeleteProduct(sku) ==
    /\ IF sku \notin DOMAIN skus
       THEN UNCHANGED catalogVars
       ELSE /\ skus' = Without(skus, sku)
            /\ IF KeysOf(keyboard_shortcuts, sku) = {}
               THEN UNCHANGED keyboard_shortcuts
               ELSE \E key \in KeysOf(keyboard_shortcuts, sku) :
                       keyboard_shortcuts' = Without(keyboard_shortcuts, key)
    /\ ev' = Event("deleteProduct", sku, <<>>, sku \in DOMAIN skus)
    /\ ToolFrame

(* ProductManager.assign_shortcuts *)
AssignShortcut(key, sku) ==
    /\ IF key \in ShortcutKeys /\ sku \in DOMAIN skus
       THEN keyboard_shortcuts' = (key :> sku) @@ keyboard_shortcuts
       ELSE UNCHANGED keyboard_shortcuts
    /\ UNCHANGED skus
    /\ ev' = Event("assignShortcut", sku, key, key \in ShortcutKeys /\ sku \in DOMAIN skus)
    /\ ToolFrame

(* ProductManager.import_csv: the rows of products.csv are written over the *)
(* mapping, the products that have no row stay                               *)
ImportCsv(rows) ==
    /\ skus' = rows @@ skus
    /\ UNCHANGED keyboard_shortcuts
    /\ ev' = Event("importCsv", <<>>, <<>>, TRUE)
    /\ ToolFrame

(* the i key on the product manager screen: import_products_csv; readable   *)
(* is false when products.csv is missing or a row of it is malformed         *)
ImportProductsCsv(rows, readable) ==
    /\ state = PRODUCT_MANAGER
    /\ IF readable
       THEN /\ skus' = rows
            /\ scanned_item' = <<"Products imported from products.csv">>
       ELSE /\ UNCHANGED skus
            /\ scanned_item' = <<"Error importing products.csv">>
    /\ UNCHANGED keyboard_shortcuts
    /\ ev' = Event("importProductsCsv", <<>>, <<>>, readable)
    /\ UNCHANGED <<state, clockVars, inputVars, cartVars, learnVars, paymentVars,
                   serialVars, last_scan_time, accepts, evals, typed>>

(* the SKUs typed at the prompts of the tool *)
ToolSkus == {SKU_APPLE, SKU_BREAD, SKU_MILK}

(* the contents of products.csv: an export of the catalog, edited *)
CsvFiles == {EmptyCatalog, OneCatalog, SmallCatalog, ThreeCatalog}

NextCatalog ==
    \/ \E sku \in ToolSkus, shortcut \in ShortcutKeys \cup {<<>>} :
          AddProduct(sku, DemoCatalog[sku], shortcut)
    \/ \E sku \in ToolSkus : DeleteProduct(sku)
    \/ \E key \in ShortcutKeys, sku \in ToolSkus : AssignShortcut(key, sku)
    \/ \E rows \in CsvFiles : ImportCsv(rows)
    \/ \E rows \in CsvFiles, readable \in BOOLEAN : ImportProductsCsv(rows, readable)
    \/ OpenProductManager
    \/ Red

InitCatalog == Start(ScanCatalogs)

SpecCatalog == InitCatalog /\ [][NextCatalog]_vars

----------------------------------------------------------------------------
(* Explicit completion alone: process_barcode_complete called on a raw      *)
(* buffer, the catalog holding a key of 7 and a key of 8 characters.        *)

MaxRawLen == 9      \* longest raw buffer handed to process_barcode_complete

SKU_7 == <<"a", "a", "a", "a", "a", "a", "a">>
SKU_8 == <<"a", "a", "a", "a", "a", "a", "a", "a">>

(* products.json with a key shorter than a barcode and a key of 8 characters *)
CompleteCatalog ==
    (SKU_7 :> DemoCatalog[SKU_APPLE]) @@ (SKU_8 :> DemoCatalog[SKU_BREAD])

CompleteCatalogs == {[skus |-> CompleteCatalog, keyboard_shortcuts |-> EmptyCatalog]}

(* the raw buffers: strings of 5 to MaxRawLen characters, each a letter or a dash *)
RawBuffers == UNION {[1..n -> {"a", "-"}] : n \in 5..MaxRawLen}

(* onExplicitCompletion(rawBuffer): process_barcode_complete called with the *)
(* buffer holding raw_buffer                                                  *)
ExplicitCompletion(raw_buffer) ==
    /\ barcode_buffer' = BufferAfterComplete(raw_buffer)
    /\ ev' = Event("complete", raw_buffer, process_barcode_complete(raw_buffer), FALSE)
    /\ UNCHANGED <<state, catalogVars, clockVars, barcode_input_time, last_key_time,
                   buffer_start, burst, burst_base, last_scan_time, cart, total_price,
                   receipt, trip, scanned_item, learnVars, paymentVars, serialVars,
                   accepts, evals, typed>>

NextComplete == \E raw_buffer \in RawBuffers : ExplicitCompletion(raw_buffer)

InitComplete == Start(CompleteCatalogs)

SpecComplete == InitComplete /\ [][NextComplete]_vars

----------------------------------------------------------------------------
(* Properties of the scan router, checked under Spec *)

(* C1 as stated: a catalog SKU typed as one burst on the keyboard, started   *)
(* on an empty buffer with the cooldown expired, gives exactly one accepted  *)
(* scan, the one of the completed code: no digit of it is scanned on its own *)
C1_BurstOneScan ==
    (ev.op = "key" /\ burst \in DOMAIN skus /\ burst_base >= 0)
        => /\ ev.accepted
           /\ ev.code = burst
           /\ Len(accepts) = burst_base + 1

(* C2: any two accepted scans, from the keyboard, a shortcut key or the      *)
(* serial scanner, in retail or in learning mode, are at least scan_cooldown *)
(* milliseconds apart                                                        *)
C2_ScansCooldownApart ==
    \A i \in 1..Len(accepts), j \in 1..Len(accepts) :
        i < j => accepts[j] - accepts[i] >= scan_cooldown

(* a scan accepted in retail mode put a line in the cart, and the learning  *)
(* session then accepts one of two barcodes queued by the serial scanner     *)
C2_Witness ==
    /\ Len(accepts) = 2
    /\ cart # <<>>
    /\ state = TIMER_MODE
    /\ ev.op = "serial" /\ ev.accepted /\ Len(ev.code) = 2

(* C3 as stated: a submit in retail mode changes the session unless it comes *)
(* less than scan_cooldown after an accepted one; in a fresh session the     *)
(* submit at t = 0 is accepted and one at t = 500 is not                     *)
C3_CooldownIdempotent ==
    (state = RETAIL_MODE /\ ev.op \in {"key", "serial"} /\ ev.code # <<>>)
        => \/ ev.accepted
           \/ accepts # <<>> /\ now - accepts[Len(accepts)] < scan_cooldown

----------------------------------------------------------------------------
(* Properties of the input buffer, checked under SpecInput *)

AllAlnum(s) == \A i \in 1..Len(s) : IsAlnum(s[i])

IsPrefix(p, s) == Len(p) <= Len(s) /\ p = SubSeq(s, 1, Len(p))

(* C4 as stated: from an empty buffer, every catalog key K of exactly 8      *)
(* characters fed at scanner speed gives None for the first 7 characters and  *)
(* K on the 8th, and the buffer is empty afterwards                          *)
C4_EveryShortKeyEmitted ==
    ev.op = "onCharacter" =>
        \A K \in DOMAIN skus :
            Len(K) = ShortCodeLen =>
                /\ burst = K => (ev.ret = K /\ barcode_buffer = <<>>)
                /\ (burst # <<>> /\ Len(burst) < ShortCodeLen /\ IsPrefix(burst, K))
                       => ev.ret = <<>>

(* C4 amended: the same for every catalog key of exactly 8 alphanumeric      *)
(* characters                                                                *)
C4_AlnumShortKeyEmitted ==
    ev.op = "onCharacter" =>
        \A K \in DOMAIN skus :
            (Len(K) = ShortCodeLen /\ AllAlnum(K)) =>
                /\ burst = K => (ev.ret = K /\ barcode_buffer = <<>>)
                /\ (burst # <<>> /\ Len(burst) < ShortCodeLen /\ IsPrefix(burst, K))
                       => ev.ret = <<>>

C4_Witness ==
    /\ ev.op = "onCharacter"
    /\ burst = SKU_APPLE
    /\ ev.ret = SKU_APPLE
    /\ barcode_buffer = <<>>

C6_SlowKeyResetsBuffer ==
    (/\ ev.op = "onCharacter"
     /\ IsAlnum(ev.code[1])
     /\ ev.gap > scanner_speed_threshold)
        => (barcode_buffer = ev.code /\ ev.ret = <<>>)

C6_Witness ==
    /\ ev.op = "onCharacter"
    /\ ev.gap > scanner_speed_threshold
    /\ ev.gap <= barcode_timeout
    /\ Len(typed) >= 2
    /\ AllAlnum(typed)
    /\ barcode_buffer = <<typed[Len(typed)]>>

(* C7 as stated: the timestamp the timeout is measured from is the time the  *)
(* first character of the current buffer was accepted (appending does not    *)
(* move it), so no buffer holds a character accepted more than the timeout   *)
(* after its first one                                                       *)
C7_TimeoutFromBufferStart ==
    barcode_buffer # <<>> =>
        /\ barcode_input_time = buffer_start
        /\ last_key_time - buffer_start <= barcode_timeout

----------------------------------------------------------------------------
(* Properties of the cart ledger, checked under SpecCart *)

Prices == {skus[k].price : k \in DOMAIN skus}

MaxPrice == CHOOSE p \in Prices : \A q \in Prices : q <= p

(* The floating-point tolerance: every addition or subtraction is off by at  *)
(* most half an ulp of its result; between two clears at most MaxReceipt     *)
(* adds and as many removes touch the total, and as many the line totals.    *)
Tolerance == 2 * MaxReceipt * Ulp(MaxReceipt * MaxPrice)

OneLinePerSku ==
    \A i, j \in 1..Len(cart) : cart[i].sku = cart[j].sku => i = j

(* C8 as stated: runningTotal equals the sum of the lineTotals *)
C8_TotalEqualsSum == total_price = SumLineTotals(cart)

(* C8 amended: runningTotal equals the sum of the lineTotals within the      *)
(* floating-point tolerance                                                  *)
C8_TotalWithinTolerance == Abs(total_price - SumLineTotals(cart)) <= Tolerance

C8_Witness ==
    /\ ev.op = "removeLast"
    /\ Len(cart) >= 2
    /\ total_price # SumLineTotals(cart)

(* the part of C9 on lines and quantities: one line per SKU, every quantity *)
(* >= 1; adds of one SKU aggregate in one line; two adds of the SKU priced  *)
(* 1.50 give quantity 2 and totals 3.00                                     *)
C9_Aggregation ==
    /\ OneLinePerSku
    /\ \A i \in 1..Len(cart) : cart[i].quantity >= 1
    /\ (trip.ok /\ trip.adds >= 1 /\ trip.removes = 0) =>
           /\ Len(cart) = 1
           /\ cart[1].sku = trip.sku
           /\ cart[1].quantity = trip.adds
    /\ (trip.ok /\ trip.sku = SKU_APPLE /\ trip.adds = 2 /\ trip.removes = 0) =>
           /\ cart[1].total_price = 2 * skus[SKU_APPLE].price
           /\ total_price = 2 * skus[SKU_APPLE].price

(* C9 as stated, with the products exact: every lineTotal is the float      *)
(* product unitPrice x quantity                                              *)
C9_LineTotalsExact ==
    /\ C9_Aggregation
    /\ \A i \in 1..Len(cart) : cart[i].total_price = FloatMul(cart[i].price, cart[i].quantity)

(* C9 amended: the same, with lineTotal equal to unitPrice x quantity within *)
(* the floating-point tolerance                                              *)
C9_LineTotalsWithinTolerance ==
    /\ C9_Aggregation
    /\ \A i \in 1..Len(cart) :
           Abs(cart[i].total_price - FloatMul(cart[i].price, cart[i].quantity)) <= Tolerance

C9_Witness ==
    /\ ev.op = "add"
    /\ trip.ok /\ trip.sku = SKU_APPLE /\ trip.adds = 2 /\ trip.removes = 0
    /\ Len(cart) = 1
    /\ cart[1].quantity = 2

(* C10: from an empty cart, n adds of one product followed by n removeLast  *)
(* leave no lines and a runningTotal of 0                                   *)
C10_RoundTrip ==
    (trip.ok /\ trip.adds >= 1 /\ trip.removes = trip.adds) =>
        (cart = <<>> /\ total_price = 0)

(* the line of the cart with the maximum first_added *)
NewestLine(c) ==
    CHOOSE i \in 1..Len(c) : \A j \in 1..Len(c) : c[j].first_added <= c[i].first_added

(* C11: removeLast on a non-empty cart acts on the line with the maximum    *)
(* firstAddedAt and on no other line: a quantity > 1 drops by 1 and the     *)
(* unit price is subtracted from the lineTotal and from runningTotal; a     *)
(* line of quantity 1 is deleted and the unit price is subtracted from      *)
(* runningTotal                                                              *)
C11_RemoveLastNewestLine ==
    [][(ev'.op = "removeLast" /\ cart # <<>>) =>
          LET i == NewestLine(cart)
          IN /\ total_price' = FloatSub(total_price, cart[i].price)
             /\ IF cart[i].quantity > 1
                THEN cart' = [cart EXCEPT ![i].quantity = @ - 1,
                                          ![i].total_price = FloatSub(@, cart[i].price)]
                ELSE cart' = RemoveAt(cart, i)]_vars

(* a removeLast took one unit off the newest of at least two lines *)
C11_Witness ==
    /\ ev.op = "removeLast"
    /\ ev.accepted
    /\ Len(cart) >= 2
    /\ scanned_item[1] = "Removed one"
    /\ cart[NewestLine(cart)].quantity >= 1
    /\ NewestLine(cart) = Len(cart)

----------------------------------------------------------------------------
(* Properties of the learning session, checked under SpecScan *)

(* a learning session was started and not left *)
LearningStarted == state \in {TIMER_MODE, GAME_OVER}

(* the step is a submit evaluated by the learning session *)
EvaluatedStep ==
    /\ state = TIMER_MODE
    /\ state' = state
    /\ now' = now
    /\ ev'.op = "submit"
    /\ ev'.accepted

(* C12: for a catalog of N products, currentTarget is a product after fewer *)
(* than N accepted evaluations since start and none after exactly N, with   *)
(* any mix of correct, wrong and unknown codes; for N = 0 it is none right  *)
(* after start                                                               *)
C12_LearningTerminates ==
    LearningStarted =>
        /\ Len(learning_product_order) = Cardinality(DOMAIN skus)
        /\ evals <= Len(learning_product_order)
        /\ evals < Len(learning_product_order) => current_target # None
        /\ evals = Len(learning_product_order) => current_target = None

(* three products, three evaluations of which one was correct *)
C12_Witness ==
    /\ state = TIMER_MODE
    /\ Len(learning_product_order) = 3
    /\ evals = 3
    /\ timer_correct = 1
    /\ current_target = None

(* position of the target in the shuffled order, one past the end for None *)
PositionOf(target) ==
    IF target = None THEN Len(learning_product_order) + 1
    ELSE CHOOSE i \in 1..Len(learning_product_order) : learning_product_order[i] = target

(* C13: every accepted evaluation, correct, wrong or of an unknown code,    *)
(* replaces currentTarget by the next element of the shuffled order (none   *)
(* after the last), so no position is the target of two evaluations         *)
C13_TargetAlwaysAdvances ==
    [][EvaluatedStep => PositionOf(current_target') = PositionOf(current_target) + 1]_vars

(* an unknown code was evaluated and the second product became the target *)
C13_Witness ==
    /\ state = TIMER_MODE
    /\ ev.op = "submit" /\ ev.accepted /\ ev.code = CODE_UNKNOWN
    /\ timer_correct = 0
    /\ evals = 1
    /\ current_target # None
    /\ PositionOf(current_target) = 2

(* C14 as stated: in a started learning session currentTarget is none       *)
(* exactly when currentIndex is greater than the length of the shuffled     *)
(* order                                                                     *)
C14_NoneIffIndexPastEnd ==
    LearningStarted =>
        (current_target = None <=> learning_current_index > Len(learning_product_order))

(* C14 amended: currentIndex never exceeds the length of the shuffled order; *)
(* while currentTarget is a product it is the element of the order just     *)
(* before currentIndex, and when currentTarget is none currentIndex equals  *)
(* the length                                                                *)
C14_IndexWithinOrder ==
    LearningStarted =>
        /\ learning_current_index <= Len(learning_product_order)
        /\ current_target # None =>
               /\ learning_current_index >= 1
               /\ current_target = learning_product_order[learning_current_index]
        /\ current_target = None => learning_current_index = Len(learning_product_order)

(* the session of two products is over: no target, the index at the length *)
C14_Witness ==
    /\ state = GAME_OVER
    /\ current_target = None
    /\ Len(learning_product_order) = 2
    /\ learning_current_index = 2
    /\ evals = 2

(* C15 as stated: the counter kept next to correctCount (timer_score, which *)
(* scan_timer_item increments together with timer_correct) counts every     *)
(* accepted evaluation, and correctCount never exceeds it                   *)
C15_AttemptsCounted ==
    LearningStarted => (timer_score = evals /\ timer_correct <= timer_score)

(* C16: an accepted evaluation adds 1 to correctCount when the code resolves *)
(* to a product with the name of currentTarget and leaves it unchanged when  *)
(* it resolves to another product or to none; correctCount never exceeds the *)
(* number of products in the shuffled order                                  *)
C16_CorrectCount ==
    [][EvaluatedStep =>
          LET product == lookup_product(ev'.code)
          IN /\ timer_correct' =
                    IF product # None /\ product.name = current_target.name
                    THEN timer_correct + 1 ELSE timer_correct
             /\ timer_correct' <= Len(learning_product_order)]_vars

(* two correct scans and a wrong one in a session of three products *)
C16_Witness ==
    /\ state = TIMER_MODE
    /\ ev.op = "submit" /\ ev.accepted
    /\ lookup_product(ev.code) # None
    /\ evals = 3
    /\ timer_correct = 2

----------------------------------------------------------------------------
(* Properties of the scan router, checked under SpecScan *)

(* the step is a submit in one of the two scanning modes *)
SubmitStep ==
    /\ state \in {RETAIL_MODE, TIMER_MODE}
    /\ state' = state
    /\ now' = now
    /\ ev'.op = "submit"

(* what a dropped submit leaves alone *)
DroppedFrame ==
    UNCHANGED <<cart, total_price, receipt, current_target, learning_current_index,
                timer_correct, scanned_item, last_scan_time>>

(* C17 as stated: in retail and in learning mode a submit less than          *)
(* scanCooldownMs after lastAcceptedScanTime changes neither the cart lines, *)
(* runningTotal, the receipt log, currentTarget, currentIndex, correctCount, *)
(* the status message nor lastAcceptedScanTime; a submit exactly             *)
(* scanCooldownMs after it is accepted                                       *)
C17_CooldownGate ==
    [][SubmitStep =>
          /\ now - last_scan_time < scan_cooldown => DroppedFrame
          /\ now - last_scan_time = scan_cooldown =>
                 (ev'.accepted /\ last_scan_time' = now)]_vars

(* C17 amended: the same, the submit exactly scanCooldownMs after            *)
(* lastAcceptedScanTime being accepted in retail mode, and in learning mode  *)
(* while the session has a target                                            *)
C17_CooldownGateWithTarget ==
    [][SubmitStep =>
          /\ now - last_scan_time < scan_cooldown => DroppedFrame
          /\ (/\ now - last_scan_time = scan_cooldown
              /\ state = RETAIL_MODE \/ current_target # None) =>
                 (ev'.accepted /\ last_scan_time' = now)]_vars

(* a submit 999 ms after an accepted one was dropped, the cart holding a line *)
C17_Witness ==
    /\ state = RETAIL_MODE
    /\ ev.op = "submit"
    /\ ~ev.accepted
    /\ cart # <<>>
    /\ now - last_scan_time = scan_cooldown - 1

(* C18: in retail mode a submit that passes the cooldown gate with a code of *)
(* no product leaves the cart lines, runningTotal and the receipt log        *)
(* unchanged, shows the "product not found" message and sets                 *)
(* lastAcceptedScanTime to now                                               *)
C18_NotFoundStartsCooldown ==
    [][(/\ SubmitStep
        /\ state = RETAIL_MODE
        /\ now - last_scan_time >= scan_cooldown
        /\ lookup_product(ev'.code) = None) =>
          /\ UNCHANGED <<cart, total_price, receipt>>
          /\ scanned_item' = <<"Product not found!">>
          /\ last_scan_time' = now]_vars

(* an unknown code was scanned on a cart that holds a line *)
C18_Witness ==
    /\ state = RETAIL_MODE
    /\ ev.op = "submit"
    /\ ev.accepted
    /\ ev.code = CODE_UNKNOWN
    /\ cart # <<>>
    /\ scanned_item = <<"Product not found!">>
    /\ last_scan_time = now

(* the quantity of the line keyed by sku, 0 when there is none *)
QuantityOf(c, sku) ==
    IF \E i \in 1..Len(c) : c[i].sku = sku
    THEN c[CHOOSE i \in 1..Len(c) : c[i].sku = sku].quantity
    ELSE 0

(* the SKU a code stands for: the one a shortcut key aliases, or the code *)
AliasedSku(code) ==
    IF code \in DOMAIN keyboard_shortcuts THEN keyboard_shortcuts[code] ELSE code

(* C19: a shortcut key resolves to the product of the SKU it aliases, and in *)
(* retail mode the line an accepted scan creates or increments is keyed by   *)
(* that SKU, never by the shortcut key: scans by shortcut and scans of the   *)
(* SKU add up in one line                                                    *)
C19_ShortcutSameLine ==
    [][(/\ SubmitStep
        /\ state = RETAIL_MODE
        /\ ev'.accepted
        /\ AliasedSku(ev'.code) \in DOMAIN skus) =>
          LET sku == AliasedSku(ev'.code)
          IN /\ lookup_product(ev'.code) = skus[sku]
             /\ QuantityOf(cart', sku) = QuantityOf(cart, sku) + 1
             /\ \A i \in 1..Len(cart') :
                    /\ cart'[i].sku \in DOMAIN skus
                    /\ cart'[i].sku = sku => cart'[i].name = skus[sku].name
             /\ \A i, j \in 1..Len(cart') : cart'[i].sku = cart'[j].sku => i = j]_vars

(* the SKU was scanned, then its shortcut key: one line of quantity 2 *)
C19_Witness ==
    /\ state = RETAIL_MODE
    /\ ev.op = "submit"
    /\ ev.accepted
    /\ ev.code = <<"1">>
    /\ ev.ret = SKU_APPLE
    /\ Len(cart) = 1
    /\ cart[1].sku = SKU_APPLE
    /\ cart[1].quantity = 2

----------------------------------------------------------------------------
(* Properties of explicit completion, checked under SpecComplete *)

(* C20 as stated: onExplicitCompletion strips the non-alphanumeric          *)
(* characters and tests the stripped string: it returns the stripped string *)
(* and clears the buffer exactly when the stripped string has at least 8    *)
(* characters and is a catalog key; otherwise it returns none and leaves    *)
(* the buffer as it was                                                      *)
C20_StrippedThenTested ==
    ev.op = "complete" =>
        LET stripped == SelectSeq(ev.code, IsAlnum)
        IN IF Len(stripped) >= ShortCodeLen /\ stripped \in DOMAIN skus
           THEN ev.ret = stripped /\ barcode_buffer = <<>>
           ELSE ev.ret = <<>> /\ barcode_buffer = ev.code

----------------------------------------------------------------------------
(* Properties of the input buffer on rejected characters, checked under     *)
(* SpecInput                                                                 *)

(* the step is onCharacter called with a character that is not alphanumeric *)
RejectedStep == ev'.op = "onCharacter" /\ ~IsAlnum(ev'.code[1])

(* C21 as stated: onCharacter called with a non-alphanumeric character      *)
(* returns none and changes neither the buffer nor its two timestamps, for  *)
(* every buffer and every value of now                                       *)
C21_RejectedNoMutation ==
    [][RejectedStep =>
          /\ ev'.ret = <<>>
          /\ UNCHANGED <<barcode_buffer, barcode_input_time, last_key_time>>]_vars

(* C21 amended: the same, except that a buffer whose last character is more *)
(* than the timeout old is cleared, as for any other character               *)
C21_RejectedAfterTimeout ==
    [][RejectedStep =>
          /\ ev'.ret = <<>>
          /\ UNCHANGED <<barcode_input_time, last_key_time>>
          /\ barcode_buffer' = IF now' - barcode_input_time > barcode_timeout
                               THEN <<>> ELSE barcode_buffer]_vars

(* a dash came at scanner speed after three letters: the buffer kept them *)
C21_Witness ==
    /\ ev.op = "onCharacter"
    /\ ev.code = <<"-">>
    /\ ev.gap < scanner_speed_threshold
    /\ ev.ret = <<>>
    /\ barcode_buffer = <<"a", "b", "c">>
    /\ barcode_input_time < now

----------------------------------------------------------------------------
(* Properties of the serial listener and of the drain of its queue *)

(* the step is one of the listener thread: the queue grows or the local     *)
(* buffer of the listener changes                                            *)
ListenerStep ==
    \/ Len(serial_queue') > Len(serial_queue)
    \/ serial_buffer' # serial_buffer

(* C22, checked under Spec: in every interleaving of the listener with the  *)
(* game loop a step of the listener appends at most one string to the queue *)
(* and writes neither the cart, runningTotal, the receipt log, the fields   *)
(* of the learning session, the keyboard buffer nor lastAcceptedScanTime    *)
C22_ListenerOnlyQueues ==
    [][ListenerStep =>
          /\ \/ serial_queue' = serial_queue
             \/ \E text \in {serial_queue'[Len(serial_queue')]} :
                    serial_queue' = Append(serial_queue, text)
          /\ UNCHANGED <<state, cart, total_price, receipt, timer_correct, timer_score,
                         current_target, learning_current_index,
                         learning_product_order, barcode_buffer, barcode_input_time,
                         last_key_time, last_scan_time, scanned_item>>]_vars

(* the listener queued a barcode in the middle of a keyboard burst, the cart *)
(* holding a line                                                            *)
C22_Witness ==
    /\ state = RETAIL_MODE
    /\ serial_queue # <<>>
    /\ barcode_buffer # <<>>
    /\ Len(barcode_buffer) >= 2
    /\ cart # <<>>

(* the step takes strings off the queue: the drain of check_serial_scanner *)
DrainStep == Len(serial_queue') < Len(serial_queue)

(* the drain left the cart and the learning session alone *)
NothingScanned ==
    UNCHANGED <<cart, total_price, receipt, timer_correct, timer_score,
                current_target, learning_current_index, last_scan_time, accepts>>

(* the oldest string of the queue was scanned in the active mode *)
OldestScanned ==
    /\ last_scan_time' = now
    /\ Len(accepts') = Len(accepts) + 1
    /\ IF state = TIMER_MODE THEN evals' = evals + 1
       ELSE LET product == lookup_product(Head(serial_queue))
            IN IF product = None
               THEN scanned_item' = <<"Product not found!">> /\ cart' = cart
               ELSE /\ scanned_item'[2] = product.name
                    /\ Len(receipt') = Len(receipt) + 1
                    /\ receipt'[Len(receipt')].item = product.name

(* C23 as stated: a tick takes every queued string off the queue, oldest    *)
(* first; each is completed as a scan in the active mode in that tick or    *)
(* dropped by the cooldown gate, and for no other reason                    *)
C23_DrainedOrCooldown ==
    [][DrainStep =>
          /\ serial_queue' = <<>>
          /\ IF now - last_scan_time < scan_cooldown
             THEN NothingScanned
             ELSE OldestScanned]_vars

(* C23 amended: the same in retail mode and in a learning session that has  *)
(* a target; in every other mode the strings are taken off the queue and    *)
(* discarded                                                                 *)
C23_DrainedInScanModes ==
    [][DrainStep =>
          /\ serial_queue' = <<>>
          /\ IF now - last_scan_time < scan_cooldown THEN NothingScanned
             ELSE IF state = RETAIL_MODE \/ (state = TIMER_MODE /\ current_target # None)
             THEN OldestScanned
             ELSE NothingScanned]_vars

(* two different barcodes were queued and the tick scanned the older one *)
C23_Witness ==
    /\ state = RETAIL_MODE
    /\ ev.op = "serial"
    /\ ev.accepted
    /\ ev.code = <<SKU_BREAD, SKU_APPLE>>
    /\ serial_queue = <<>>
    /\ Len(cart) = 1
    /\ cart[1].sku = SKU_BREAD

(* C24 as stated: after a fragment of noise, a barcode that arrives in      *)
(* several partial reads is queued once its fragments together are 8 or     *)
(* more alphanumeric characters, and the noise is never queued               *)
C24_BarcodeAfterNoiseQueued ==
    /\ Len(serial_clean) < ShortCodeLen
    /\ \A i \in 1..Len(serial_queue) : IsAlnumStr(serial_queue[i])

----------------------------------------------------------------------------
(* a step of the checkout button or of the remove-last button *)
EmptyCartStep ==
    /\ ev'.op \in {"checkout", "removeLastItem"}
    /\ now' = now
    /\ cart = <<>>

(* C25: removeLast on an empty cart and checkout on an empty cart fail      *)
(* without harm: the cart, the running total, the receipt log, the payment   *)
(* fields and the mode, which is Retail, are what they were, and the message *)
(* shown is "Cart is empty!"                                                 *)
C25_EmptyCartNonFatal ==
    [][EmptyCartStep =>
          /\ cart' = <<>>
          /\ total_price' = total_price
          /\ receipt' = receipt
          /\ state = RETAIL_MODE /\ state' = RETAIL_MODE
          /\ UNCHANGED <<paymentVars, last_scan_time, wall>>
          /\ scanned_item' = <<"Cart is empty!">>]_vars

(* a checkout refused on a cart emptied by remove-last, the receipt log     *)
(* still holding the scans                                                   *)
C25_Witness ==
    /\ ev.op = "checkout"
    /\ cart = <<>>
    /\ receipt # <<>>
    /\ state = RETAIL_MODE
    /\ scanned_item = <<"Cart is empty!">>

----------------------------------------------------------------------------
(* C26: clear(), whatever the cart held, leaves no line, a running total of *)
(* zero and an empty receipt log                                             *)
C26_ClearEmptiesAll ==
    [][ev'.op = "clear" =>
          /\ cart' = <<>>
          /\ total_price' = 0
          /\ receipt' = <<>>]_vars

(* a clear has just emptied a cart in which two lines had been opened *)
C26_Witness ==
    /\ ev.op = "clear"
    /\ wall >= 2
    /\ cart = <<>>
    /\ receipt = <<>>

----------------------------------------------------------------------------
(* the entry add_to_cart writes for the product of sku *)
EntryOf(sku) == [item |-> skus[sku].name, price |-> skus[sku].price]

(* C27: the receipt log is append-only between clears: an add appends one  *)
(* entry, that of the product added, after the entries already there;       *)
(* removeLast leaves the log as it is; no step but a clear shortens it       *)
C27_ReceiptAppendOnly ==
    [][/\ ev'.op = "add" => receipt' = Append(receipt, EntryOf(ev'.code))
       /\ ev'.op = "removeLast" => receipt' = receipt
       /\ ev'.op # "clear" => IsPrefix(receipt, receipt')]_vars

(* a removeLast has taken a unit off the cart and the log still holds three *)
(* entries, two of them of the same product                                  *)
C27_Witness ==
    /\ ev.op = "removeLast"
    /\ ev.accepted
    /\ Len(receipt) = 3
    /\ receipt[1] = receipt[2]
    /\ receipt[3] # receipt[1]
    /\ SumQuantitiesFrom(cart, 1, 0) = 2

----------------------------------------------------------------------------
ItemsOf(lines) == SelectSeq(lines, LAMBDA line : line.kind = "item")

CountOf(lines) == SelectSeq(lines, LAMBDA line : line.kind = "count")

TotalOf(lines) == SelectSeq(lines, LAMBDA line : line.kind = "total")

(* C28: generateReceipt() returns the empty sequence for an empty cart;     *)
(* otherwise it has one item line per cart line, in the order of the cart,  *)
(* with that line's name and quantity, one item count equal to the sum of   *)
(* the quantities, one total equal to the running total as printed, and no  *)
(* field of the cart, the total or the log is changed                        *)
C28_ReceiptFromCart ==
    [][ev'.op = "generateReceipt" =>
          /\ UNCHANGED <<cart, total_price, receipt, scanned_item, state, wall,
                         last_scan_time>>
          /\ cart = <<>> => ev'.ret = <<>>
          /\ cart # <<>> =>
                /\ Len(ItemsOf(ev'.ret)) = Len(cart)
                /\ \A i \in 1..Len(cart) :
                      /\ ItemsOf(ev'.ret)[i].text = cart[i].name
                      /\ ItemsOf(ev'.ret)[i].quantity = cart[i].quantity
                /\ Len(CountOf(ev'.ret)) = 1
                /\ CountOf(ev'.ret)[1].quantity = SumQuantitiesFrom(cart, 1, 0)
                /\ Len(TotalOf(ev'.ret)) = 1
                /\ TotalOf(ev'.ret)[1].amount = Format2(total_price)]_vars

(* a receipt of a cart of two lines, one of them of two units, generated    *)
(* when the log holds more entries than the cart holds units                 *)
C28_Witness ==
    /\ ev.op = "generateReceipt"
    /\ Len(cart) = 2
    /\ SumQuantitiesFrom(cart, 1, 0) = 3
    /\ Len(receipt) > 3
    /\ Len(ev.ret) = 14

----------------------------------------------------------------------------
(* C29: the cart is empty, with a running total of 0, right after Retail    *)
(* mode is entered from the menu; it is cleared when a checkout completes,  *)
(* on an explicit clear, and when Retail mode is left for the menu           *)
C29_CartLifetime ==
    [][/\ (state = MENU /\ state' = RETAIL_MODE) => (cart' = <<>> /\ total_price' = 0)
       /\ (state = PAYMENT_MODE /\ state' = RETAIL_MODE /\ ev'.op = "advancePayment")
              => cart' = <<>>
       /\ (ev'.op = "clearCart" /\ now' = now) => cart' = <<>>
       /\ (state = RETAIL_MODE /\ state' = MENU) => cart' = <<>>]_vars

----------------------------------------------------------------------------
(* order holds every product of the catalog, each one once *)
IsPermutationOfCatalog(order) ==
    /\ Len(order) = Cardinality(DOMAIN skus)
    /\ \A sku \in DOMAIN skus :
          Cardinality({i \in 1..Len(order) : order[i] = skus[sku]}) = 1

(* C30: start() of a learning session, whatever the session before left,   *)
(* sets both score counters to 0, makes the order a permutation of all the  *)
(* products of the catalog, and leaves the first product of the order as    *)
(* the target, or none when the catalog is empty                             *)
C30_StartResetsSession ==
    [][(state = MENU /\ state' = TIMER_MODE) =>
          /\ timer_score' = 0
          /\ timer_correct' = 0
          /\ IsPermutationOfCatalog(learning_product_order')
          /\ current_target' = IF learning_product_order' # <<>>
                               THEN learning_product_order'[1]
                               ELSE None]_vars

(* a session of three products has just started, the session before it     *)
(* having scored, and its first target is not the first product of the      *)
(* catalog                                                                   *)
C30_Witness ==
    /\ ev.op = "startTimer"
    /\ ev.ret[1] > 0
    /\ ev.ret[2] > 0
    /\ state = TIMER_MODE
    /\ timer_score = 0
    /\ Len(learning_product_order) = 3
    /\ current_target = skus[SKU_MILK]

----------------------------------------------------------------------------
(* C31: after any sequence of catalog operations (add product, delete      *)
(* product, assign shortcut, CSV import in the tool, CSV import in the      *)
(* game) every shortcut key maps to a SKU that is in the product mapping    *)
C31_ShortcutsResolve ==
    \A key \in DOMAIN keyboard_shortcuts : keyboard_shortcuts[key] \in DOMAIN skus

----------------------------------------------------------------------------
IsProperPrefix(p, s) == IsPrefix(p, s) /\ Len(p) < Len(s)

(* K is the first catalog key that a burst spelling K runs into *)
FirstKeyOnTheWay(K) ==
    \A n \in ShortCodeLen..(Len(K) - 1) : SubSeq(K, 1, n) \notin DOMAIN skus

(* what is typed of L after its prefix K *)
Remainder(K) == SubSeq(typed, Len(K) + 1, Len(typed))

(* the longer code L is being typed, K is behind, and the characters after  *)
(* K came at scanner speed                                                   *)
PastKey(K, L) ==
    /\ IsPrefix(typed, L)
    /\ Len(typed) > Len(K)
    /\ burst = Remainder(K)

(* the collision of the key K with the longer code L *)
Collision(K, L) ==
    /\ (burst = K /\ typed = K) => (ev.ret = K /\ barcode_buffer = <<>>)
    /\ PastKey(K, L) => (ev.ret = <<>> /\ barcode_buffer = Remainder(K))

(* C32 as stated: a catalog key K of 8 to 12 characters that is a proper    *)
(* prefix of a longer code typed at scanner speed from an empty buffer is   *)
(* emitted at the character that completes it, and the buffer is cleared;   *)
(* the longer code is never emitted, its remaining characters start a new   *)
(* buffer                                                                    *)
C32_PrefixCollision ==
    ev.op = "onCharacter" =>
        \A K \in DOMAIN skus, L \in Streams :
            (Len(K) \in ShortCodeLen..(LongCodeLen - 1) /\ IsProperPrefix(K, L))
                => Collision(K, L)

(* C32 amended: the same for a key K of alphanumeric characters that has no *)
(* shorter catalog key of 8 characters or more as a prefix                   *)
C32_AlnumPrefixCollision ==
    ev.op = "onCharacter" =>
        \A K \in DOMAIN skus, L \in Streams :
            (/\ Len(K) \in ShortCodeLen..(LongCodeLen - 1)
             /\ IsProperPrefix(K, L)
             /\ AllAlnum(K)
             /\ FirstKeyOnTheWay(K))
                => Collision(K, L)

(* the 13 characters of a code that begins with the key 12345678 have been  *)
(* typed: the key went out at the eighth, the last five are in the buffer    *)
C32_Witness ==
    /\ ev.op = "onCharacter"
    /\ typed = CODE_COLLIDE
    /\ SKU_APPLE \in DOMAIN skus
    /\ burst = <<"9", "0", "1", "2", "3">>
    /\ barcode_buffer = burst
    /\ ev.ret = <<>>

----------------------------------------------------------------------------
(* C33: an add followed at once by removeLast restores the cart lines      *)
(* (SKUs, quantities, line totals) and the running total to what they were  *)
(* before the add, also when the SKU had a line already and lines of other  *)
(* SKUs were opened after it                                                 *)
C33_AddThenRemoveLastRestores ==
    [][(ev.op = "add" /\ ev'.op = "removeLast") =>
          /\ Ledger(cart') = ev.ret[1]
          /\ total_price' = ev.ret[2]]_vars

----------------------------------------------------------------------------
(* a step of the RETURN key on a buffer that holds something *)
EnterStep == ev'.op = "enter" /\ barcode_buffer # <<>>

(* C34: with the catalog fixed, RETURN pressed on a non-empty buffer, in     *)
(* retail or in learning mode, never produces a scan: onExplicitCompletion   *)
(* returns none, the status becomes "Unknown barcode" with the buffer in it, *)
(* the buffer is cleared, and the cart, the score and the scan clock are     *)
(* what they were                                                             *)
C34_EnterNeverScans ==
    [][EnterStep =>
          /\ ev'.ret = <<>>
          /\ scanned_item' = <<"Unknown barcode", barcode_buffer>>
          /\ barcode_buffer' = <<>>
          /\ UNCHANGED <<cart, total_price, receipt, timer_score, timer_correct,
                         current_target, last_scan_time, accepts>>]_vars

(* RETURN has been pressed on a buffer of eight characters or more *)
C34_Witness ==
    /\ ev.op = "enter"
    /\ barcode_buffer = <<>>
    /\ Len(scanned_item) = 2
    /\ scanned_item[1] = "Unknown barcode"
    /\ Len(scanned_item[2]) >= ShortCodeLen

----------------------------------------------------------------------------
(* C35: after every onCharacter call, the catalog being fixed, the buffer   *)
(* holds alphanumeric characters only, 12 of them at most, and is not a     *)
(* catalog key of 8 characters or more                                       *)
C35_BufferInvariant ==
    /\ AllAlnum(barcode_buffer)
    /\ Len(barcode_buffer) <= LongCodeLen - 1
    /\ ~(Len(barcode_buffer) >= ShortCodeLen /\ barcode_buffer \in DOMAIN skus)

(* twelve characters are in the buffer, one character of the burst having  *)
(* been rejected on the way                                                 *)
C35_Witness ==
    /\ ev.op = "onCharacter"
    /\ Len(barcode_buffer) = LongCodeLen - 1
    /\ \E i \in 1..Len(burst) : ~IsAlnum(burst[i])

----------------------------------------------------------------------------
(* C36: a code returned by onCharacter has 8 to 13 characters, and one of   *)
(* fewer than 13 is a catalog key; no catalog key of fewer than 8 or more   *)
(* than 13 characters is ever returned                                       *)
C36_EmittedCodes ==
    (ev.op = "onCharacter" /\ ev.ret # <<>>) =>
        /\ Len(ev.ret) \in ShortCodeLen..LongCodeLen
        /\ Len(ev.ret) < LongCodeLen => ev.ret \in DOMAIN skus
        /\ \A K \in DOMAIN skus :
              (Len(K) < ShortCodeLen \/ Len(K) > LongCodeLen) => ev.ret # K

(* the key of 14 characters has been typed at scanner speed: its first 13   *)
(* went out as a code at the 13th, the key of 5 characters went by unnoticed *)
C36_Witness ==
    /\ ev.op = "onCharacter"
    /\ typed = SKU_MILK \o <<"0">>
    /\ typed \in DOMAIN skus
    /\ <<"1", "2", "3", "4", "5">> \in DOMAIN skus
    /\ burst = <<"0">>
    /\ barcode_buffer = <<"0">>

----------------------------------------------------------------------------
(* C37: every step that ends in PAYMENT mode (the game starts in the menu)  *)
(* ends with a cart that is not empty, a payment amount equal to the        *)
(* running total and a payment step in 0..3; and no event handled while the *)
(* mode is PAYMENT and stays PAYMENT changes the cart, the total or the     *)
(* receipt log                                                               *)
C37_PaymentInvariant ==
    [][/\ state' = PAYMENT_MODE =>
            (/\ cart' # <<>>
             /\ payment_amount' = total_price'
             /\ payment_step' \in 0..3)
       /\ (state = PAYMENT_MODE /\ state' = PAYMENT_MODE) =>
            UNCHANGED <<cart, total_price, receipt>>]_vars

(* the third advance of a payment is done and the scanner has queued a      *)
(* barcode that the next frame will drain                                    *)
C37_Witness ==
    /\ state = PAYMENT_MODE
    /\ payment_step = 3
    /\ ev.op = "advancePayment"
    /\ serial_queue # <<>>
    /\ Len(cart) = 2

----------------------------------------------------------------------------
(* a step of the advance button on the payment screen *)
AdvanceStep == ev'.op = "advancePayment" /\ state = PAYMENT_MODE /\ now' = now

(* C38: the payment step counts the advances since the payment started; the *)
(* checkout completes on the fourth and on no other; the receipt written at *)
(* that step is generated from the cart as it was before the clear: it is   *)
(* not empty, its item lines are the cart lines and its total is the        *)
(* payment amount as printed; after the step the mode is Retail, the cart   *)
(* and the receipt log are empty and the running total is 0                  *)
C38_CheckoutOnFourthAdvance ==
    [][/\ (state = RETAIL_MODE /\ state' = PAYMENT_MODE) => payment_step' = 0
       /\ AdvanceStep =>
          /\ payment_step' = payment_step + 1
          /\ payment_step' < 4 =>
                /\ state' = PAYMENT_MODE
                /\ ev'.ret = <<>>
                /\ UNCHANGED <<cart, total_price, receipt>>
          /\ payment_step' >= 4 =>
                /\ payment_step' = 4
                /\ ev'.ret # <<>>
                /\ Len(ItemsOf(ev'.ret)) = Len(cart)
                /\ \A i \in 1..Len(cart) : ItemsOf(ev'.ret)[i].text = cart[i].name
                /\ TotalOf(ev'.ret)[1].amount = Format2(payment_amount)
                /\ state' = RETAIL_MODE
                /\ cart' = <<>>
                /\ total_price' = 0
                /\ receipt' = <<>>]_vars

(* a checkout of a cart of two lines has just completed *)
C38_Witness ==
    /\ ev.op = "advancePayment"
    /\ ev.accepted
    /\ payment_step = 4
    /\ state = RETAIL_MODE
    /\ cart = <<>>
    /\ Len(ItemsOf(ev.ret)) = 2
    /\ payment_amount > 0

----------------------------------------------------------------------------
(* the step of ESC or of the red button on the payment screen: the mode     *)
(* goes back to Retail and no advance is counted                             *)
CancelStep ==
    state = PAYMENT_MODE /\ state' = RETAIL_MODE /\ payment_step' = payment_step

(* C39: a payment cancelled at any step leaves Retail mode with the cart    *)
(* lines, the running total and the receipt log that the payment started    *)
(* with, and the next checkout starts at payment step 0                      *)
C39_CancelRestores ==
    [][/\ CancelStep =>
            /\ Ledger(cart') = ev.code[1]
            /\ receipt' = ev.code[2]
            /\ total_price' = payment_amount
            /\ UNCHANGED <<cart, total_price, receipt>>
       /\ (state = RETAIL_MODE /\ state' = PAYMENT_MODE) =>
            /\ payment_step' = 0
            /\ payment_amount' = total_price']_vars

(* the red button has just cancelled, at its third step, the payment of a   *)
(* cart of two lines, a barcode waiting in the serial queue                  *)
C39_Witness ==
    /\ state = RETAIL_MODE
    /\ ev.op = "command"
    /\ payment_step = 3
    /\ Len(cart) = 2
    /\ payment_amount = total_price
    /\ serial_queue # <<>>

----------------------------------------------------------------------------
(* C40: a learning session without target                                    *)

NoTarget == state = TIMER_MODE /\ current_target = None

(* C40: once currentTarget is none in learning mode, the next frame drawn    *)
(* moves the mode to GAME_OVER (the red button may leave for the menu before *)
(* it, and no time passes in the session before it); from GAME_OVER the only *)
(* transition is to MENU; a scan submitted while there is no target, and     *)
(* every other step taken then, changes neither the score, the count of      *)
(* correct scans, the index nor lastAcceptedScanTime                         *)
C40_NoTargetEndsSession ==
    /\ [][/\ NoTarget =>
               /\ state' \in {TIMER_MODE, GAME_OVER, MENU}
               /\ (state' = TIMER_MODE) => (now' = now /\ current_target' = None)
          /\ (state = GAME_OVER) => (state' \in {GAME_OVER, MENU})
          /\ (NoTarget \/ state = GAME_OVER) =>
               UNCHANGED <<timer_score, timer_correct, learning_current_index,
                           last_scan_time>>]_vars
    /\ NoTarget ~> (state \in {GAME_OVER, MENU})

(* a scan submitted to a learning session without target, the cooldown over, *)
(* was dropped                                                               *)
C40_Witness ==
    /\ NoTarget
    /\ ev.op = "submit"
    /\ ~ev.accepted
    /\ now - last_scan_time >= scan_cooldown

=============================================================================
